---- MODULE Spec2Model ----
(***************************************************************************)
(* Attendance analysis engine (src/src/utils/attendanceAnalysis.ts).       *)
(*                                                                         *)
(* Conventions of the model                                                *)
(*   - A calendar date 'yyyy-MM-dd' is a day number; day 0 is Monday       *)
(*     2024-01-01, so day 5 is a Saturday and day 6 a Sunday.              *)
(*   - A punch (AttendanceRecord) keeps the fields the analysis reads:     *)
(*       name = Nombre, day/hm/sec = 'Fecha/Hora' (hm = hours*60+minutes), *)
(*       tipo = 'Tipo de registro', op = Operacion ("None" = undefined).   *)
(*   - A Date is a number of seconds since 00:00:00 of day 0.              *)
(*   - Hour credits (lateHours, overtimeHours, saturdayHours, totalHours)  *)
(*     are counted in half hours: 1 stands for 0.5 h, 2 for 1.0 h.         *)
(*   - A Schedule object carries ref, its object identity: the code's      *)
(*     schedule === preferences.regularSchedule compares identities.       *)
(***************************************************************************)
EXTENDS Integers, Sequences, FiniteSets, TLC

VARIABLES
    preferences,   \* PreferencesConfig handed to the engine
    rawRecords,    \* punches handed to analyzeAttendance
    startDate,     \* start of the selected range (a Date)
    endDate,       \* end of the selected range (a Date)
    results,       \* AnalysisResult[] returned by analyzeAttendance
    locals,        \* local values of analyzeAttendance: companyWorkdays, and per
                   \* employee the accumulators before rounding
    dayRecords,    \* punches handed to analyzeDayRecords or filterDuplicateRecords
    daySchedule,   \* Schedule handed to analyzeDayRecords or returned by detectSchedule
    dayAnalysis,   \* value returned by analyzeDayRecords
    selectedPeriod,  \* App state: the month and fortnight shown
    filterResult,    \* value returned by filterDuplicateRecords
    showPreferences,   \* App state: the settings dialog is open
    localPreferences,  \* PreferencesDialog state: the configuration being edited
    selectedIndex,     \* App state: index of the selected row, -1 for none
    markedPeople,      \* App state: names of the marked employees
    expandedPerson,    \* App state: name of the expanded row, "null" for none
    error,             \* App state: the error message shown, "" for none
    pendingReads,      \* uploads waiting at `await file.arrayBuffer()`: the sheet of
                       \* the file and the preferences of the render that started it
    pc             \* position of the run

\* the state of the settings dialog and of the results table
viewVars == <<showPreferences, localPreferences, selectedIndex, markedPeople, expandedPerson>>

\* the state of the App that the engine does not touch
uiVars == <<viewVars, error, pendingReads>>

vars == <<preferences, rawRecords, startDate, endDate, results, locals,
          dayRecords, daySchedule, dayAnalysis, selectedPeriod, filterResult,
          showPreferences, localPreferences, selectedIndex, markedPeople,
          expandedPerson, error, pendingReads, pc>>

(***************************************************************************)
(* Bounds of the model                                                     *)
(***************************************************************************)
MaxPunches == 3

\* uploads that can wait for their file at the same time
MaxReads == 1

(***************************************************************************)
(* Time utilities (date-fns and Date)                                      *)
(***************************************************************************)
SecondsPerDay == 24 * 60 * 60

\* parse(date, 'yyyy-MM-dd', new Date()): midnight of the date
parseDate(day) == day * SecondsPerDay

\* parse(r['Fecha/Hora'], 'yyyy-MM-dd HH:mm:ss', new Date())
parseDateTime(r) == r.day * SecondsPerDay + r.hm * 60 + r.sec

\* mutant: days counted from Monday = 0, so that 6 is a Sunday
getDay_FromMonday(day) == day % 7

\* Date.getDay(): 0 = Sunday .. 6 = Saturday
getDay(day) == (day + 1) % 7

\* mutant: only Sunday counts as weekend
isWeekend_SundayOnly(day) == getDay(day) = 0

isWeekend(day) == getDay(day) \in {0, 6}

\* date.getHours() * 60 + date.getMinutes()
minutesSinceMidnight(r) == r.hm

\* date-fns differenceInMinutes: full minutes, truncated towards zero
differenceInMinutes(later, earlier) ==
    LET d == later - earlier
    IN  IF d >= 0 THEN d \div 60 ELSE -((-d) \div 60)

\* mutant: the end of the interval is excluded
isWithinInterval_OpenEnd(date, start, end) == date >= start /\ date < end

\* date-fns isWithinInterval(date, {start, end}): start <= date <= end
isWithinInterval(date, start, end) == date >= start /\ date <= end

(***************************************************************************)
(* Configuration                                                           *)
(***************************************************************************)
DEFAULT_PREFERENCES ==
    [ regularSchedule |-> [ref |-> "regular", startTime |-> 8 * 60, endTime |-> 17 * 60,
                           lunchStart |-> 12 * 60, lunchEnd |-> 13 * 60],
      earlySchedule   |-> [ref |-> "early", startTime |-> 7 * 60, endTime |-> 16 * 60,
                           lunchStart |-> 12 * 60, lunchEnd |-> 13 * 60],
      duplicateThresholdMinutes |-> 5,
      lunchDuration |-> 60,
      overtimeThresholds |-> [fullHour |-> 55, halfHour |-> 25],
      lateThresholds |-> [fullHour |-> 35, halfHour |-> 5],
      showAllDays |-> TRUE ]

(***************************************************************************)
(* Duplicate filter                                                        *)
(***************************************************************************)
\* one step of [...records].sort((a, b) => time(a) - time(b)): Array.prototype.sort
\* is stable, so r goes after every element that is not later than it
SortInsert(sorted, r) ==
    LET k == Cardinality({i \in 1..Len(sorted) : parseDateTime(sorted[i]) <= parseDateTime(r)})
    IN  SubSeq(sorted, 1, k) \o <<r>> \o SubSeq(sorted, k + 1, Len(sorted))

\* mutant: the records are left in the order given
sortedRecords_Unsorted(recs) == recs

RECURSIVE sortedRecords(_)
sortedRecords(recs) ==
    IF recs = <<>> THEN <<>>
    ELSE SortInsert(sortedRecords(SubSeq(recs, 1, Len(recs) - 1)), recs[Len(recs)])

\* mutant: a record exactly the threshold after the last kept one is kept
KeepsRecord_AtThreshold(prevRecord, current, prefs) ==
    \/ differenceInMinutes(parseDateTime(current), parseDateTime(prevRecord))
           >= prefs.duplicateThresholdMinutes
    \/ current.tipo # prevRecord.tipo
    \/ current.op # prevRecord.op

\* mutant: the operation tag is not compared
KeepsRecord_IgnoresOperation(prevRecord, current, prefs) ==
    \/ differenceInMinutes(parseDateTime(current), parseDateTime(prevRecord))
           > prefs.duplicateThresholdMinutes
    \/ current.tipo # prevRecord.tipo

\* mutant: the record that follows a dropped record is kept without comparison
RECURSIVE FilterReduce_AfterDrop(_, _, _)
FilterReduce_AfterDrop(acc, rest, prefs) ==
    IF rest = <<>> THEN acc
    ELSE IF \/ differenceInMinutes(parseDateTime(Head(rest)), parseDateTime(acc[Len(acc)]))
                   > prefs.duplicateThresholdMinutes
            \/ Head(rest).tipo # acc[Len(acc)].tipo
            \/ Head(rest).op # acc[Len(acc)].op
        THEN FilterReduce_AfterDrop(Append(acc, Head(rest)), Tail(rest), prefs)
    ELSE IF Len(rest) >= 2
        THEN FilterReduce_AfterDrop(Append(acc, rest[2]), Tail(Tail(rest)), prefs)
    ELSE acc

\* the test that keeps `current` after the last kept record `prevRecord`
KeepsRecord(prevRecord, current, prefs) ==
    \/ differenceInMinutes(parseDateTime(current), parseDateTime(prevRecord))
           > prefs.duplicateThresholdMinutes
    \/ current.tipo # prevRecord.tipo
    \/ current.op # prevRecord.op

RECURSIVE FilterReduce(_, _, _)
FilterReduce(acc, rest, prefs) ==
    IF rest = <<>> THEN acc
    ELSE LET current == Head(rest)
             prevRecord == acc[Len(acc)]
         IN  FilterReduce(IF KeepsRecord(prevRecord, current, prefs)
                              THEN Append(acc, current) ELSE acc,
                          Tail(rest), prefs)

filterDuplicateRecords(recs, prefs) ==
    LET sorted == sortedRecords(recs)
    IN  IF sorted = <<>> THEN <<>>
        ELSE FilterReduce(<<sorted[1]>>, Tail(sorted), prefs)

(***************************************************************************)
(* Daily evaluator                                                         *)
(***************************************************************************)
\* mutant: the half-hour tier starts at the threshold itself
LateHoursCredit_Inclusive(minutesLate, prefs) ==
    IF minutesLate >= prefs.lateThresholds.halfHour /\ minutesLate <= prefs.lateThresholds.fullHour
        THEN 1
    ELSE IF minutesLate > prefs.lateThresholds.fullHour
        THEN 2
    ELSE 0

\* the late-hours tier written out three times in analyzeDayRecords
LateHoursCredit(minutesLate, prefs) ==
    IF minutesLate > prefs.lateThresholds.halfHour /\ minutesLate <= prefs.lateThresholds.fullHour
        THEN 1
    ELSE IF minutesLate > prefs.lateThresholds.fullHour
        THEN 2
    ELSE 0

\* mutant: the tier is applied to an amount of 0 as well
LateHoursAdded_AnyAmount(minutesLate, prefs) == LateHoursCredit(minutesLate, prefs)

\* what a block adds to lateHours: the tier sits inside the branch that found
\* minutesLate > 0, so an amount of 0 adds nothing whatever the thresholds
LateHoursAdded(minutesLate, prefs) ==
    IF minutesLate > 0 THEN LateHoursCredit(minutesLate, prefs) ELSE 0

\* filteredRecords.find(r => r['Tipo de registro'] === 'Break' && r.Operacion === op)
FindBreak(filtered, op) ==
    LET hits == {i \in 1..Len(filtered) : filtered[i].tipo = "Break" /\ filtered[i].op = op}
    IN  IF hits = {} THEN <<>>
        ELSE <<filtered[CHOOSE i \in hits : \A j \in hits : i <= j]>>

\* differenceInMinutes(breakIn, breakOut) when both break punches are found
BreakDuration(filtered) ==
    LET breakOutRecord == FindBreak(filtered, "Out")
        breakInRecord == FindBreak(filtered, "In")
    IN  differenceInMinutes(parseDateTime(breakInRecord[1]), parseDateTime(breakOutRecord[1]))

HasBreakPair(filtered) ==
    FindBreak(filtered, "Out") # <<>> /\ FindBreak(filtered, "In") # <<>>

\* mutant: the break is not subtracted
TotalWorkedMinutes_NoBreak(filtered) ==
    differenceInMinutes(parseDateTime(filtered[Len(filtered)]), parseDateTime(filtered[1]))

\* totalWorkedMinutes of a non-empty day
TotalWorkedMinutes(filtered) ==
    LET firstRecord == parseDateTime(filtered[1])
        lastRecord == parseDateTime(filtered[Len(filtered)])
        span == differenceInMinutes(lastRecord, firstRecord)
    IN  IF HasBreakPair(filtered) THEN span - BreakDuration(filtered) ELSE span

\* mutant: the early-arrival credit is granted whatever the schedule
EarlyArrivalOvertime_AnySchedule(arrivalMinutes, sched, prefs) ==
    IF arrivalMinutes < sched.startTime
        THEN IF arrivalMinutes <= 7 * 60 + 5 THEN 2
             ELSE IF arrivalMinutes <= 7 * 60 + 30 THEN 1
             ELSE 0
    ELSE 0

\* earlyArrivalOvertime: set in the regular-schedule branch only
EarlyArrivalOvertime(arrivalMinutes, sched, prefs) ==
    IF sched.ref = prefs.regularSchedule.ref /\ arrivalMinutes < sched.startTime
        THEN IF arrivalMinutes <= 7 * 60 + 5 THEN 2
             ELSE IF arrivalMinutes <= 7 * 60 + 30 THEN 1
             ELSE 0
    ELSE 0

\* mutant: lateness is counted with the regular schedule only
ArrivalMinutesLate_RegularOnly(arrivalMinutes, sched, prefs) ==
    IF sched.ref = prefs.regularSchedule.ref /\ arrivalMinutes > sched.startTime
        THEN arrivalMinutes - sched.startTime
    ELSE 0

\* minutesLate of the arrival, in either branch; 0 when not late
ArrivalMinutesLate(arrivalMinutes, sched, prefs) ==
    IF sched.ref = prefs.regularSchedule.ref
        THEN IF arrivalMinutes < sched.startTime THEN 0
             ELSE IF arrivalMinutes > sched.startTime THEN arrivalMinutes - sched.startTime
             ELSE 0
    ELSE IF arrivalMinutes > sched.startTime THEN arrivalMinutes - sched.startTime
         ELSE 0

\* mutant: the overtime thresholds are exclusive
EveningOvertime_Strict(departureMinutes, sched, prefs) ==
    IF departureMinutes >= sched.endTime
        THEN IF departureMinutes > sched.endTime + prefs.overtimeThresholds.fullHour THEN 2
             ELSE IF departureMinutes > sched.endTime + prefs.overtimeThresholds.halfHour THEN 1
             ELSE 0
    ELSE 0

\* the evening credit granted inside the 8-hour gate
EveningOvertime(departureMinutes, sched, prefs) ==
    IF departureMinutes >= sched.endTime
        THEN IF departureMinutes >= sched.endTime + prefs.overtimeThresholds.fullHour THEN 2
             ELSE IF departureMinutes >= sched.endTime + prefs.overtimeThresholds.halfHour THEN 1
             ELSE 0
    ELSE 0

\* mutant: the gate needs more than 480 minutes
WorkedGate_Strict(totalWorkedMinutes) == totalWorkedMinutes > 480

\* the `totalWorkedMinutes >= 480` gate
WorkedGate(totalWorkedMinutes) == totalWorkedMinutes >= 480

\* mutant: the whole break is counted as late, not only the overrun
LunchMinutesLate_WholeBreak(filtered, prefs) ==
    IF HasBreakPair(filtered) /\ BreakDuration(filtered) > prefs.lunchDuration
        THEN BreakDuration(filtered)
    ELSE 0

\* the lunch block: minutes over lunchDuration, 0 when there is no pair or no overrun
LunchMinutesLate(filtered, prefs) ==
    IF HasBreakPair(filtered) /\ BreakDuration(filtered) > prefs.lunchDuration
        THEN BreakDuration(filtered) - prefs.lunchDuration
    ELSE 0

\* analyzeDayRecords from its filteredRecords on
AnalyzeFiltered(filteredRecords, sched, prefs) ==
    IF Len(filteredRecords) > 0 /\ getDay(filteredRecords[1].day) = 6
        THEN [lateMinutes |-> 0, overtimeHours |-> 0, lateHours |-> 0]
    ELSE IF Len(filteredRecords) = 0
        THEN [lateMinutes |-> 0, overtimeHours |-> 0, lateHours |-> 0]
    ELSE
        [ lateMinutes |->
              ArrivalMinutesLate(minutesSinceMidnight(filteredRecords[1]), sched, prefs)
              + LunchMinutesLate(filteredRecords, prefs),
          overtimeHours |->
              IF WorkedGate(TotalWorkedMinutes(filteredRecords))
                  THEN EarlyArrivalOvertime(minutesSinceMidnight(filteredRecords[1]),
                                            sched, prefs)
                       + EveningOvertime(
                             minutesSinceMidnight(filteredRecords[Len(filteredRecords)]),
                             sched, prefs)
              ELSE 0,
          lateHours |->
              LateHoursAdded(
                  ArrivalMinutesLate(minutesSinceMidnight(filteredRecords[1]), sched, prefs),
                  prefs)
              + LateHoursAdded(LunchMinutesLate(filteredRecords, prefs), prefs) ]

analyzeDayRecords(recs, sched, prefs) ==
    AnalyzeFiltered(filterDuplicateRecords(recs, prefs), sched, prefs)

(***************************************************************************)
(* Schedule classifier                                                     *)
(***************************************************************************)
\* minute-of-day of the punches of kind `tipo` on non-weekend days
WeekdayTimes(recs, tipo) ==
    LET kept == SelectSeq(recs, LAMBDA r : ~isWeekend(r.day) /\ r.tipo = tipo)
    IN  [i \in 1..Len(kept) |-> minutesSinceMidnight(kept[i])]

RECURSIVE SumSeq(_)
SumSeq(times) == IF times = <<>> THEN 0 ELSE Head(times) + SumSeq(Tail(times))

Abs(x) == IF x < 0 THEN -x ELSE x

\* mutant: a tie counts as closer
AvgCloserTo_OrEqual(times, a, b) ==
    /\ Len(times) > 0
    /\ Abs(SumSeq(times) - a * Len(times)) <= Abs(SumSeq(times) - b * Len(times))

\* mutant: the average of no element is taken to be 0
AvgCloserTo_EmptyIsZero(times, a, b) ==
    IF Len(times) = 0 THEN Abs(0 - a) < Abs(0 - b)
    ELSE Abs(SumSeq(times) - a * Len(times)) < Abs(SumSeq(times) - b * Len(times))

\* Math.abs(avg - a) < Math.abs(avg - b) for avg = sum / length, both sides scaled
\* by length; with no element avg is NaN and the comparison is false
AvgCloserTo(times, a, b) ==
    /\ Len(times) > 0
    /\ Abs(SumSeq(times) - a * Len(times)) < Abs(SumSeq(times) - b * Len(times))

detectSchedule(recs, prefs) ==
    LET entryTimes == WeekdayTimes(recs, "In")
        departureTimes == WeekdayTimes(recs, "Out")
        isEarlySchedule ==
            /\ AvgCloserTo(entryTimes, prefs.earlySchedule.startTime,
                           prefs.regularSchedule.startTime)
            /\ AvgCloserTo(departureTimes, prefs.earlySchedule.endTime,
                           prefs.regularSchedule.endTime)
    IN  IF isEarlySchedule THEN prefs.earlySchedule ELSE prefs.regularSchedule

(***************************************************************************)
(* Numbers (IEEE 754 doubles) of the Saturday total. A double d that lies  *)
(* next to a whole number of minutes is written [minutes, err, low]:       *)
(*     d = minutes / 60 + err / (60 * 2^58)   hours,                       *)
(* d * 2^58 is a whole number and low is its remainder modulo 2^20. The    *)
(* last bit of the 53-bit significand of a double in [2^E, 2^(E+1)) is     *)
(* worth 2^(E+6) of these units.                                           *)
(***************************************************************************)
UnitBits == 58
LowBits == 20
LowModulus == 2 ^ LowBits

\* the largest binade of a total: totals stay below 2^11 hours
MaxBinade == 10

\* 2^p modulo 60
Pow2Mod60[p \in 0..UnitBits] == IF p = 0 THEN 1 ELSE (2 * Pow2Mod60[p - 1]) % 60

\* minutes / 60 + err / (60 * 2^58) >= 2^E
AtLeastPow2(minutes, err, E) ==
    IF E >= 0
        THEN \/ minutes > 60 * 2 ^ E
             \/ minutes = 60 * 2 ^ E /\ err >= 0
    ELSE \/ minutes * 2 ^ (0 - E) > 60
         \/ minutes * 2 ^ (0 - E) = 60 /\ err >= 0

\* the E with 2^E <= minutes / 60 + err / (60 * 2^58) < 2^(E+1), for minutes >= 1
Binade(minutes, err) ==
    CHOOSE E \in (0 - 6)..MaxBinade :
        /\ AtLeastPow2(minutes, err, E)
        /\ E = MaxBinade \/ ~AtLeastPow2(minutes, err, E + 1)

\* the double 0
DoubleZero == [minutes |-> 0, err |-> 0, low |-> 0]

\* minutes / 60 on a whole number of minutes: the double nearest to the quotient.
\* With ulp = 2^(E+6) units, minutes * 2^58 = 60 * ulp * q + ulp * rho, rho the
\* remainder of minutes * 2^(58 - (E+6)) by 60; rho is never 30.
DivideBy60(minutes) ==
    IF minutes = 0 THEN DoubleZero
    ELSE LET ulpBits == Binade(minutes, 0) + 6
             rho == ((minutes % 60) * Pow2Mod60[UnitBits - ulpBits]) % 60
             lowRho == ((minutes % 60) * Pow2Mod60[UnitBits - LowBits]) % 60
             lowQuotient == (lowRho * 2 ^ (LowBits - ulpBits)) \div 60
         IN  IF rho < 30
                 THEN [ minutes |-> minutes,
                        err |-> 0 - (2 ^ ulpBits) * rho,
                        low |-> lowQuotient * 2 ^ ulpBits ]
             ELSE [ minutes |-> minutes,
                    err |-> (2 ^ ulpBits) * (60 - rho),
                    low |-> ((lowQuotient + 1) % 2 ^ (LowBits - ulpBits)) * 2 ^ ulpBits ]

\* what rounding to the nearest double, ties to even, adds to a whole number of
\* units whose remainder modulo 2^20 is low, ulp being the worth of the last bit
RoundingStep(low, ulp) ==
    LET rem == low % ulp
    IN  IF rem = 0 THEN 0
        ELSE IF 2 * rem < ulp THEN 0 - rem
        ELSE IF 2 * rem > ulp THEN ulp - rem
        ELSE IF (low \div ulp) % 2 = 0 THEN 0 - rem
        ELSE ulp - rem

\* the double given its exact sum: minutes, err and low before rounding
RoundedSum(minutes, err, low) ==
    IF minutes = 0 THEN DoubleZero
    ELSE [ minutes |-> minutes,
           err |-> err + 60 * RoundingStep(low, 2 ^ (Binade(minutes, err) + 6)),
           low |-> (low + RoundingStep(low, 2 ^ (Binade(minutes, err) + 6))) % LowModulus ]

\* a + b on doubles: the double nearest to the exact sum
DoubleAdd(a, b) ==
    RoundedSum(a.minutes + b.minutes, a.err + b.err, (a.low + b.low) % LowModulus)

\* the double of a count of half hours, which is exact
HalfHours(count) == [minutes |-> count * 30, err |-> 0, low |-> 0]

(***************************************************************************)
(* Keys of a plain object ({} as Record<string, ...>)                      *)
(***************************************************************************)
\* property names that every plain object inherits from Object.prototype
ObjectPrototypeKeys ==
    { "constructor", "toString", "toLocaleString", "valueOf", "hasOwnProperty",
      "isPrototypeOf", "propertyIsEnumerable", "__proto__", "__defineGetter__",
      "__defineSetter__", "__lookupGetter__", "__lookupSetter__" }

\* the largest integer key the sheets of the model hold
MaxIndexKey == 999

\* the keys that are canonical array indices: "0", "1", "2", ...
IndexKeys == {ToString(n) : n \in 0..MaxIndexKey}

\* the number an index key writes
IndexOf(key) == CHOOSE n \in 0..MaxIndexKey : ToString(n) = key

\* the index keys among `keys`, in ascending numeric order
RECURSIVE SortedIndexKeys(_)
SortedIndexKeys(keys) ==
    IF keys = {} THEN <<>>
    ELSE LET least == CHOOSE k \in keys : \A other \in keys : IndexOf(k) <= IndexOf(other)
         IN  <<least>> \o SortedIndexKeys(keys \ {least})

\* Object.entries order of the keys inserted in the order of `inserted`: the index
\* keys first, in ascending numeric order, then the other keys in insertion order
EntriesOrder(inserted) ==
    SortedIndexKeys({inserted[i] : i \in 1..Len(inserted)} \cap IndexKeys)
        \o SelectSeq(inserted, LAMBDA k : k \notin IndexKeys)

(***************************************************************************)
(* Period aggregator                                                       *)
(***************************************************************************)
\* the dates of the punches that pass the weekday-and-range test
getCompanyWorkdays(allRecords, start, end) ==
    { allRecords[i].day : i \in
        { j \in 1..Len(allRecords) :
            /\ ~isWeekend(allRecords[j].day)
            /\ isWithinInterval(parseDate(allRecords[j].day), start, end) } }

groupByDay(recs) ==
    [ date \in {recs[i].day : i \in 1..Len(recs)} |->
        SelectSeq(recs, LAMBDA r : r.day = date) ]

\* the value thrown by acc[name].push(record) when acc[name] is not an array
TypeError == <<"TypeError">>

\* the reduce into userRecords throws: acc[name] of a name that the empty object
\* inherits is truthy, so no array is stored and acc[name].push is not a function
GroupingThrows(recs) ==
    \E i \in 1..Len(recs) : recs[i].name \in ObjectPrototypeKeys

\* the names of the punches, each once, in the order of their first punch
RECURSIVE InsertedNames(_)
InsertedNames(recs) ==
    IF recs = <<>> THEN <<>>
    ELSE LET before == InsertedNames(SubSeq(recs, 1, Len(recs) - 1))
             name == recs[Len(recs)].name
         IN  IF \E i \in 1..Len(before) : before[i] = name THEN before
             ELSE Append(before, name)

\* the keys of userRecords in the order of Object.entries(userRecords), or the
\* TypeError of the reduce
UserNames(recs) ==
    IF GroupingThrows(recs) THEN TypeError
    ELSE EntriesOrder(InsertedNames(recs))

\* a pass of the forEach over dailyRecords that adds nothing
NoContribution ==
    [lateDays |-> 0, lateMinutes |-> 0, lateHours |-> 0,
     overtimeHours |-> 0, saturdayHours |-> DoubleZero, invoked |-> FALSE]

\* mutant: every evaluated weekday counts as a late day
WorkdayContribution_EveryDayLate(day) ==
    [ lateDays |-> 1,
      lateMinutes |-> day.lateMinutes,
      lateHours |-> day.lateHours,
      overtimeHours |-> day.overtimeHours,
      saturdayHours |-> DoubleZero,
      invoked |-> TRUE ]

\* what the pass adds for a weekday, given analyzeDayRecords' value for its bucket
WorkdayContribution(day) ==
    [ lateDays |-> IF day.lateMinutes > 0 THEN 1 ELSE 0,
      lateMinutes |-> IF day.lateMinutes > 0 THEN day.lateMinutes ELSE 0,
      lateHours |-> IF day.lateMinutes > 0 THEN day.lateHours ELSE 0,
      overtimeHours |-> day.overtimeHours,
      saturdayHours |-> DoubleZero,
      invoked |-> TRUE ]

\* mutant: the pass does not test the date against the range
DayContribution_AnyDate(date, dayRecs, sched, start, end, prefs) ==
    IF isWeekend(date)
        THEN IF Len(dayRecs) >= 2
                 THEN [NoContribution EXCEPT !.saturdayHours =
                          DivideBy60(differenceInMinutes(
                              parseDateTime(dayRecs[Len(dayRecs)]),
                              parseDateTime(dayRecs[1])))]
             ELSE NoContribution
    ELSE WorkdayContribution(analyzeDayRecords(dayRecs, sched, prefs))

\* what one pass of the forEach over dailyRecords adds to the accumulators;
\* `invoked` records whether analyzeDayRecords was called for the bucket
DayContribution(date, dayRecs, sched, start, end, prefs) ==
    IF ~isWithinInterval(parseDate(date), start, end) THEN NoContribution
    ELSE IF isWeekend(date)
        THEN IF Len(dayRecs) >= 2
                 THEN [NoContribution EXCEPT !.saturdayHours =
                          DivideBy60(differenceInMinutes(
                              parseDateTime(dayRecs[Len(dayRecs)]),
                              parseDateTime(dayRecs[1])))]
             ELSE NoContribution
    ELSE WorkdayContribution(analyzeDayRecords(dayRecs, sched, prefs))

\* the accumulators `acc` after a pass that adds `c` for `date`
AddContribution(acc, c, date) ==
    [ totalLateDays |-> acc.totalLateDays + c.lateDays,
      totalLateMinutes |-> acc.totalLateMinutes + c.lateMinutes,
      totalLateHours |-> acc.totalLateHours + c.lateHours,
      totalOvertimeHours |-> acc.totalOvertimeHours + c.overtimeHours,
      totalSaturdayHours |-> DoubleAdd(acc.totalSaturdayHours, c.saturdayHours),
      evaluated |-> IF c.invoked THEN acc.evaluated \cup {date} ELSE acc.evaluated ]

\* the date of `dates` that the forEach visits last
LastDate(dates) == CHOOSE d \in dates : \A e \in dates : d >= e

\* the accumulators after the forEach over the dates in `dates`
RECURSIVE Accumulate(_, _, _, _, _, _)
Accumulate(dates, dailyRecords, sched, start, end, prefs) ==
    IF dates = {}
        THEN [totalLateDays |-> 0, totalLateMinutes |-> 0, totalLateHours |-> 0,
              totalOvertimeHours |-> 0, totalSaturdayHours |-> DoubleZero, evaluated |-> {}]
    ELSE AddContribution(
             Accumulate(dates \ {LastDate(dates)}, dailyRecords, sched, start, end, prefs),
             DayContribution(LastDate(dates), dailyRecords[LastDate(dates)],
                             sched, start, end, prefs),
             LastDate(dates))

\* the dates of the employee's buckets that are weekdays within the range
UserWorkdays(dailyRecords, start, end) ==
    { date \in DOMAIN dailyRecords :
        ~isWeekend(date) /\ isWithinInterval(parseDate(date), start, end) }

\* mutant: every company workday is counted, whatever the user's workdays
CountAbsences_IgnoresUser(companyWorkdays, userWorkdays) ==
    Cardinality(companyWorkdays)

\* totalAbsences: the company workdays that are not among the user's workdays
CountAbsences(companyWorkdays, userWorkdays) ==
    Cardinality({date \in companyWorkdays : date \notin userWorkdays})

\* mutant: the total is rounded down to a half hour
RoundToHalfHours_Down(total) == total.minutes \div 30

\* Math.round(total * 2) / 2 on a double, as a count of half hours: total * 2 is
\* exact, and Math.round gives the upper whole number only from the half on
RoundToHalfHours(total) ==
    IF total.minutes % 30 = 15 /\ total.err < 0
        THEN (total.minutes + 15) \div 30 - 1
    ELSE (total.minutes + 15) \div 30

\* the local values of a pass of the map, from its schedule and dailyRecords on
LocalsOf(userName, schedule, dailyRecords, companyWorkdays, start, end, prefs) ==
    [ name |-> userName,
      schedule |-> schedule,
      dailyRecords |-> dailyRecords,
      totalAbsences |-> CountAbsences(companyWorkdays,
                                      UserWorkdays(dailyRecords, start, end)) ]
    @@ Accumulate(DOMAIN dailyRecords, dailyRecords, schedule, start, end, prefs)

\* the local values of a pass of the map, from its filteredRecords on
LocalsOfFiltered(userName, filteredRecords, companyWorkdays, start, end, prefs) ==
    LocalsOf(userName, detectSchedule(filteredRecords, prefs), groupByDay(filteredRecords),
             companyWorkdays, start, end, prefs)

\* mutant: the pass works on the punches of every employee
UserLocals_AllRecords(userName, allRecords, start, end, prefs) ==
    LocalsOfFiltered(
        userName,
        filterDuplicateRecords(allRecords, prefs),
        getCompanyWorkdays(allRecords, start, end), start, end, prefs)

\* the local values of one pass of the map over Object.entries(userRecords)
UserLocals(userName, allRecords, start, end, prefs) ==
    LocalsOfFiltered(
        userName,
        filterDuplicateRecords(SelectSeq(allRecords, LAMBDA r : r.name = userName), prefs),
        getCompanyWorkdays(allRecords, start, end), start, end, prefs)

\* the AnalysisResult built from the local values
UserResult(l, start, end) ==
    LET roundedOvertimeHours == RoundToHalfHours(HalfHours(l.totalOvertimeHours))
        roundedSaturdayHours == RoundToHalfHours(l.totalSaturdayHours)
    IN  [ name |-> l.name,
          schedule |-> l.schedule,
          daysRegistered |-> Cardinality({date \in DOMAIN l.dailyRecords :
                                 isWithinInterval(parseDate(date), start, end)}),
          absences |-> l.totalAbsences,
          lateHours |-> l.totalLateHours,
          lateDays |-> l.totalLateDays,
          lateMinutes |-> l.totalLateMinutes,
          overtimeHours |-> roundedOvertimeHours,
          saturdayHours |-> roundedSaturdayHours,
          totalHours |-> roundedOvertimeHours + roundedSaturdayHours,
          dailyRecords |-> l.dailyRecords ]

\* the local values of each pass of the map, in the order of `names`
LocalsOfUsers(names, allRecords, start, end, prefs) ==
    [i \in 1..Len(names) |-> UserLocals(names[i], allRecords, start, end, prefs)]

\* companyWorkdays and, in the order of Object.entries(userRecords), the local
\* values of each pass of the map; when the reduce throws, companyWorkdays alone
analyzeLocals(allRecords, start, end, prefs) ==
    [ companyWorkdays |-> getCompanyWorkdays(allRecords, start, end),
      users |-> IF GroupingThrows(allRecords) THEN <<>>
                ELSE LocalsOfUsers(UserNames(allRecords), allRecords, start, end, prefs) ]

\* the AnalysisResult of every employee, from the local values of the passes
ResultsOf(users, start, end) ==
    [i \in 1..Len(users) |-> UserResult(users[i], start, end)]

\* the AnalysisResult[] returned, or the TypeError thrown by the reduce
analyzeAttendance(allRecords, start, end, prefs) ==
    IF GroupingThrows(allRecords) THEN TypeError
    ELSE ResultsOf(analyzeLocals(allRecords, start, end, prefs).users, start, end)

(***************************************************************************)
(* Period selection (FortnightSelector). The model calendar is January     *)
(* 2024: day 0 is the 1st, day 30 the 31st.                                *)
(***************************************************************************)
DaysInMonth == 31

\* date-fns setDate(month, n): the n-th of the month, time of day kept
setDate(month, n) == (n - 1) * SecondsPerDay + (month % SecondsPerDay)

\* date-fns endOfMonth(month): the last second of the last day
endOfMonth(month) == DaysInMonth * SecondsPerDay - 1

\* date-fns startOfMonth(date): midnight of the 1st, in months of DaysInMonth days
startOfMonth(date) ==
    (date \div (DaysInMonth * SecondsPerDay)) * (DaysInMonth * SecondsPerDay)

\* Date.getDate(): the day of the month, 1 for the 1st
getDate(date) == ((date \div SecondsPerDay) % DaysInMonth) + 1

getFortnightDates(month, fortnight) ==
    [ start |-> IF fortnight = 1 THEN setDate(month, 1) ELSE setDate(month, 16),
      end   |-> IF fortnight = 1 THEN setDate(month, 15) ELSE endOfMonth(month) ]

(***************************************************************************)
(* Inputs of the runs                                                      *)
(***************************************************************************)
Punch(name, day, hm, sec, tipo, op) ==
    [name |-> name, day |-> day, hm |-> hm, sec |-> sec, tipo |-> tipo, op |-> op]

NoAnalysis == [lateMinutes |-> 0, overtimeHours |-> 0, lateHours |-> 0]

NoLocals == [companyWorkdays |-> {}, users |-> <<>>]

\* the period of a run that has no App around it
NoPeriod == [month |-> 0, fortnight |-> 1]

\* the dialog and the table when the App starts: dialog closed, no row selected,
\* nobody marked, no row expanded
InitUi ==
    /\ showPreferences = FALSE
    /\ localPreferences = preferences
    /\ selectedIndex = -1
    /\ markedPeople = {}
    /\ expandedPerson = "null"
    /\ error = ""
    /\ pendingReads = {}

\* configurations the settings editor can save: the defaults with other
\* thresholds, a negative one among them
WithThresholds(late, overtime) ==
    [DEFAULT_PREFERENCES EXCEPT !.lateThresholds = late, !.overtimeThresholds = overtime]

DayPreferences ==
    { DEFAULT_PREFERENCES,
      WithThresholds([fullHour |-> 35, halfHour |-> 35], [fullHour |-> 55, halfHour |-> 25]),
      WithThresholds([fullHour |-> 5, halfHour |-> 35], [fullHour |-> 55, halfHour |-> 25]),
      WithThresholds([fullHour |-> 35, halfHour |-> 5], [fullHour |-> 55, halfHour |-> 55]),
      WithThresholds([fullHour |-> 35, halfHour |-> 5], [fullHour |-> 25, halfHour |-> 55]),
      WithThresholds([fullHour |-> 35, halfHour |-> -5], [fullHour |-> 55, halfHour |-> 25]) }

\* the schedule objects a caller can pass: the two of the configuration, and the
\* regular schedule object of a configuration that has been replaced since
StaleSchedule(prefs) == [prefs.regularSchedule EXCEPT !.ref = "stale"]

DaySchedules(prefs) == {prefs.regularSchedule, prefs.earlySchedule, StaleSchedule(prefs)}

\* a Monday and a Saturday
DayDates == {0, 5}

\* candidate first punches: around 07:05 and 07:30, and around the scheduled start
\* and the two late thresholds
ArrivalPunches(day, sched, prefs) ==
    LET lh == prefs.lateThresholds.halfHour
        lf == prefs.lateThresholds.fullHour
        times == {7 * 60 + 5, 7 * 60 + 6, 7 * 60 + 30, 7 * 60 + 31}
                 \cup {sched.startTime + k : k \in {-1, 0, lh, lh + 1, lf, lf + 1}}
    IN  {Punch("Ana", day, hm, 0, "In", "None") : hm \in times}
        \cup {Punch("Ana", day, 7 * 60 + 5, 30, "In", "None")}

\* candidate break punches, at 12:00 and after it
FirstBreakPunches(day) ==
    {Punch("Ana", day, 12 * 60, 0, "Break", op) : op \in {"Out", "In"}}

\* a Break-In punch 60 minutes after 12:00, then 5, 15, 35 and 36 minutes over
\* the default lunch duration, and a Break-Out punch
SecondBreakPunches(day) ==
    {Punch("Ana", day, 13 * 60 + over, 0, "Break", "In") : over \in {0, 5, 15, 35, 36}}
    \cup {Punch("Ana", day, 13 * 60, 0, "Break", "Out")}

\* candidate last punches: around the scheduled end and the two overtime
\* thresholds, and eight hours after 07:05
DeparturePunches(day, sched, prefs) ==
    LET oh == prefs.overtimeThresholds.halfHour
        of == prefs.overtimeThresholds.fullHour
        times == {15 * 60 + 4, 15 * 60 + 5}
                 \cup {sched.endTime + k : k \in {-1, 0, oh - 1, oh, of - 1, of}}
    IN  {Punch("Ana", day, hm, 0, "Out", "None") : hm \in times}

\* zero or one punch of a set, as a list
Optional(punches) == {<<>>} \cup {<<r>> : r \in punches}

\* the departure, alone or punched again two minutes later
Departures(day, sched, prefs) ==
    {<<>>}
    \cup {<<r>> : r \in DeparturePunches(day, sched, prefs)}
    \cup {<<r, [r EXCEPT !.hm = r.hm + 2]>> : r \in DeparturePunches(day, sched, prefs)}

DayInputs(day, sched, prefs) ==
    { a \o b1 \o b2 \o d :
        a \in Optional(ArrivalPunches(day, sched, prefs)),
        b1 \in Optional(FirstBreakPunches(day)),
        b2 \in Optional(SecondBreakPunches(day)),
        d \in Departures(day, sched, prefs) }

(***************************************************************************)
(* Run of the daily evaluator on one day                                   *)
(***************************************************************************)
InitDay ==
    /\ pc = "day"
    /\ preferences \in DayPreferences
    /\ InitUi
    /\ daySchedule \in DaySchedules(preferences)
    /\ \E day \in DayDates : dayRecords \in DayInputs(day, daySchedule, preferences)
    /\ dayAnalysis = NoAnalysis
    /\ rawRecords = <<>>
    /\ startDate = 0
    /\ endDate = 0
    /\ results = <<>>
    /\ locals = NoLocals
    /\ selectedPeriod = NoPeriod
    /\ filterResult = <<>>

EvaluateDay ==
    /\ pc = "day"
    /\ dayAnalysis' = analyzeDayRecords(dayRecords, daySchedule, preferences)
    /\ pc' = "dayDone"
    /\ UNCHANGED <<preferences, rawRecords, startDate, endDate, results, locals,
                   dayRecords, daySchedule, selectedPeriod, filterResult>>
    /\ UNCHANGED uiVars

SpecDay == InitDay /\ [][EvaluateDay]_vars

(***************************************************************************)
(* Run of the period aggregator on one upload                              *)
(***************************************************************************)
\* punches of two employees in January 2024: Monday the 1st (day 0), Tuesday the
\* 2nd, Saturday the 6th (4 h 30 and 4 h 45 after the first punch), Sunday the
\* 7th, Monday the 15th and Tuesday the 16th
PeriodPunches ==
    { Punch("Ana", 0, 8 * 60 + 10, 0, "In", "None"),
      Punch("Ana", 0, 17 * 60 + 30, 0, "Out", "None"),
      Punch("Ana", 0, 23 * 60 + 58, 0, "In", "None"),
      Punch("Ana", 1, 1, 0, "In", "None"),
      Punch("Ana", 5, 9 * 60, 0, "In", "None"),
      Punch("Ana", 5, 13 * 60 + 30, 0, "Out", "None"),
      Punch("Ana", 5, 13 * 60 + 45, 0, "Out", "None"),
      Punch("Ana", 6, 9 * 60, 0, "In", "None"),
      Punch("Ana", 6, 13 * 60, 0, "Out", "None"),
      Punch("Ana", 15, 8 * 60 + 10, 0, "In", "None"),
      Punch("Beto", 0, 8 * 60 + 10, 0, "In", "None"),
      Punch("Beto", 1, 7 * 60, 0, "In", "None"),
      Punch("Beto", 1, 16 * 60, 0, "Out", "None"),
      Punch("Beto", 14, 8 * 60, 0, "In", "None"),
      Punch("Beto", 15, 7 * 60 + 40, 0, "In", "None") }

PeriodInputs == UNION {[1..n -> PeriodPunches] : n \in 0..MaxPunches}

\* a sheet with three weekend buckets of 3 h, 5 h 05 and 3 h 10: Saturday the 6th,
\* Sunday the 7th and Saturday the 13th
WeekendSheet ==
    << Punch("Ana", 5, 9 * 60, 0, "In", "None"),
       Punch("Ana", 5, 12 * 60, 0, "Out", "None"),
       Punch("Ana", 6, 9 * 60, 0, "In", "None"),
       Punch("Ana", 6, 14 * 60 + 5, 0, "Out", "None"),
       Punch("Ana", 12, 9 * 60, 0, "In", "None"),
       Punch("Ana", 12, 12 * 60 + 10, 0, "Out", "None") >>

\* a sheet whose employees are named Zed, 10 and 2
IndexNamesSheet ==
    << Punch("Zed", 0, 8 * 60 + 10, 0, "In", "None"),
       Punch("10", 0, 8 * 60, 0, "In", "None"),
       Punch("2", 1, 8 * 60, 0, "In", "None") >>

\* a sheet with an employee named constructor
InheritedNameSheet ==
    << Punch("Ana", 0, 8 * 60 + 10, 0, "In", "None"),
       Punch("constructor", 0, 8 * 60, 0, "In", "None") >>

\* the sheets handed to analyzeAttendance
PeriodSheets == PeriodInputs \cup {WeekendSheet, IndexNamesSheet, InheritedNameSheet}

PeriodPreferences ==
    { DEFAULT_PREFERENCES,
      [DEFAULT_PREFERENCES EXCEPT !.duplicateThresholdMinutes = 1] }

\* the month handed to getFortnightDates: startOfMonth of January 2024
PeriodMonths == {parseDate(0)}

InitPeriod ==
    /\ pc = "period"
    /\ preferences \in PeriodPreferences
    /\ InitUi
    /\ rawRecords \in PeriodSheets
    /\ \E month \in PeriodMonths, fortnight \in {1, 2} :
          /\ startDate = getFortnightDates(month, fortnight).start
          /\ endDate = getFortnightDates(month, fortnight).end
    /\ results = <<>>
    /\ locals = NoLocals
    /\ dayRecords = <<>>
    /\ daySchedule = preferences.regularSchedule
    /\ dayAnalysis = NoAnalysis
    /\ selectedPeriod = NoPeriod
    /\ filterResult = <<>>

\* a call of analyzeAttendance: it returns the results, or it throws and returns
\* nothing
AnalyzePeriod ==
    /\ pc = "period"
    /\ results' = IF GroupingThrows(rawRecords) THEN results
                  ELSE analyzeAttendance(rawRecords, startDate, endDate, preferences)
    /\ locals' = analyzeLocals(rawRecords, startDate, endDate, preferences)
    /\ pc' = IF GroupingThrows(rawRecords) THEN "periodThrew" ELSE "periodDone"
    /\ UNCHANGED <<preferences, rawRecords, startDate, endDate,
                   dayRecords, daySchedule, dayAnalysis, selectedPeriod, filterResult>>
    /\ UNCHANGED uiVars

SpecPeriod == InitPeriod /\ [][AnalyzePeriod]_vars

(***************************************************************************)
(* Run of the period aggregator on a range whose ends carry a time of day  *)
(***************************************************************************)
\* the Date handed to getFortnightDates: 1 January 2024, at 00:00 and at 10:00
RangeMonths == {parseDate(0), parseDate(0) + 10 * 60 * 60}

InitRange ==
    /\ pc = "period"
    /\ preferences = DEFAULT_PREFERENCES
    /\ InitUi
    /\ rawRecords \in PeriodSheets
    /\ \E month \in RangeMonths, fortnight \in {1, 2} :
          /\ startDate = getFortnightDates(month, fortnight).start
          /\ endDate = getFortnightDates(month, fortnight).end
    /\ results = <<>>
    /\ locals = NoLocals
    /\ dayRecords = <<>>
    /\ daySchedule = preferences.regularSchedule
    /\ dayAnalysis = NoAnalysis
    /\ selectedPeriod = NoPeriod
    /\ filterResult = <<>>

SpecRange == InitRange /\ [][AnalyzePeriod]_vars

(***************************************************************************)
(* Run of the duplicate filter on one list of punches                      *)
(***************************************************************************)
\* punches of one employee on Monday 1 January: entries at 08:00:00 and 4, 5,
\* 5:59, 6 and 8 minutes later, and a departure, a Break-Out and a Break-In at
\* 08:03:00
FilterPunches ==
    {Punch("Ana", 0, 8 * 60 + m, 0, "In", "None") : m \in {0, 4, 5, 6, 8}}
    \cup { Punch("Ana", 0, 8 * 60 + 5, 59, "In", "None"),
           Punch("Ana", 0, 8 * 60 + 3, 0, "Out", "None"),
           Punch("Ana", 0, 8 * 60 + 3, 0, "Break", "Out"),
           Punch("Ana", 0, 8 * 60 + 3, 0, "Break", "In") }

\* the lists handed to the filter, in any order, punches repeated or not
FilterInputs == UNION {[1..n -> FilterPunches] : n \in 0..MaxPunches}

FilterPreferences ==
    { DEFAULT_PREFERENCES,
      [DEFAULT_PREFERENCES EXCEPT !.duplicateThresholdMinutes = 4] }

InitFilter ==
    /\ pc = "filter"
    /\ preferences \in FilterPreferences
    /\ InitUi
    /\ dayRecords \in FilterInputs
    /\ filterResult = <<>>
    /\ daySchedule = preferences.regularSchedule
    /\ dayAnalysis = NoAnalysis
    /\ rawRecords = <<>>
    /\ startDate = 0
    /\ endDate = 0
    /\ results = <<>>
    /\ locals = NoLocals
    /\ selectedPeriod = NoPeriod

ApplyFilter ==
    /\ pc = "filter"
    /\ filterResult' = filterDuplicateRecords(dayRecords, preferences)
    /\ pc' = "filterDone"
    /\ UNCHANGED <<preferences, rawRecords, startDate, endDate, results, locals,
                   dayRecords, daySchedule, dayAnalysis, selectedPeriod>>
    /\ UNCHANGED uiVars

SpecFilter == InitFilter /\ [][ApplyFilter]_vars

(***************************************************************************)
(* Run of the schedule classifier on the punches of one employee           *)
(***************************************************************************)
\* punches of one employee: entries and departures on Monday 1 January at the
\* two scheduled times and half-way between them, a Break-In at 07:00, and an
\* entry on Saturday 6 January at 06:00
ClassifierPunches ==
    {Punch("Beto", 0, hm, 0, "In", "None") : hm \in {7 * 60, 7 * 60 + 30, 8 * 60}}
    \cup {Punch("Beto", 0, hm, 0, "Out", "None") : hm \in {16 * 60, 16 * 60 + 30, 17 * 60}}
    \cup { Punch("Beto", 0, 7 * 60, 0, "Break", "In"),
           Punch("Beto", 5, 6 * 60, 0, "In", "None") }

ClassifierInputs == UNION {[1..n -> ClassifierPunches] : n \in 0..MaxPunches}

\* the defaults, and the defaults with an early schedule of 07:30 to 16:30
ClassifierPreferences ==
    { DEFAULT_PREFERENCES,
      [DEFAULT_PREFERENCES EXCEPT !.earlySchedule.startTime = 7 * 60 + 30,
                                  !.earlySchedule.endTime = 16 * 60 + 30] }

\* no schedule detected yet
NoSchedule == [ref |-> "none", startTime |-> 0, endTime |-> 0,
               lunchStart |-> 0, lunchEnd |-> 0]

InitClassify ==
    /\ pc = "classify"
    /\ preferences \in ClassifierPreferences
    /\ InitUi
    /\ dayRecords \in ClassifierInputs
    /\ daySchedule = NoSchedule
    /\ filterResult = <<>>
    /\ dayAnalysis = NoAnalysis
    /\ rawRecords = <<>>
    /\ startDate = 0
    /\ endDate = 0
    /\ results = <<>>
    /\ locals = NoLocals
    /\ selectedPeriod = NoPeriod

\* the filter and the classifier, as analyzeAttendance applies them to the
\* punches of an employee
Classify ==
    /\ pc = "classify"
    /\ filterResult' = filterDuplicateRecords(dayRecords, preferences)
    /\ daySchedule' = detectSchedule(filterDuplicateRecords(dayRecords, preferences),
                                     preferences)
    /\ pc' = "classifyDone"
    /\ UNCHANGED <<preferences, rawRecords, startDate, endDate, results, locals,
                   dayRecords, dayAnalysis, selectedPeriod>>
    /\ UNCHANGED uiVars

SpecClassify == InitClassify /\ [][Classify]_vars

(***************************************************************************)
(* The application (App): uploads, period changes, saved preferences       *)
(***************************************************************************)
\* punches of the uploaded sheets: Ana on Monday 1 January (10 minutes late, a
\* second punch 2 minutes later, a departure) and on Tuesday 16 January
AppPunches ==
    { Punch("Ana", 0, 8 * 60 + 10, 0, "In", "None"),
      Punch("Ana", 0, 8 * 60 + 12, 0, "In", "None"),
      Punch("Ana", 0, 17 * 60 + 30, 0, "Out", "None"),
      Punch("Ana", 15, 8 * 60 + 10, 0, "In", "None") }

\* the sheets that can be uploaded: one or two rows, and the sheet with an
\* employee named constructor
AppUploads == [1..1 -> AppPunches] \cup [1..2 -> AppPunches] \cup {InheritedNameSheet}

\* configurations that storage can hold and the settings dialog can save
AppPreferences ==
    { DEFAULT_PREFERENCES,
      WithThresholds([fullHour |-> 35, halfHour |-> 35], [fullHour |-> 55, halfHour |-> 25]),
      [DEFAULT_PREFERENCES EXCEPT !.duplicateThresholdMinutes = 1] }

\* Math.min over the dates of the records
MinDate(recs) ==
    parseDate(CHOOSE d \in {recs[i].day : i \in 1..Len(recs)} :
                  \A i \in 1..Len(recs) : d <= recs[i].day)

\* the period that handleFileUpload and handleDrop select for a first date
PeriodOf(firstDate) ==
    [month |-> startOfMonth(firstDate),
     fortnight |-> IF getDate(firstDate) <= 15 THEN 1 ELSE 2]

InitApp ==
    /\ pc = "app"
    /\ preferences \in AppPreferences
    /\ InitUi
    /\ rawRecords = <<>>
    /\ results = <<>>
    /\ selectedPeriod = [month |-> parseDate(0), fortnight |-> 1]
    /\ startDate = 0
    /\ endDate = 0
    /\ locals = NoLocals
    /\ dayRecords = <<>>
    /\ daySchedule = preferences.regularSchedule
    /\ dayAnalysis = NoAnalysis
    /\ filterResult = <<>>

\* the messages of the catch blocks of handleFileUpload/handleDrop and of
\* handlePeriodChange
FileError == "Error al procesar el archivo. Asegúrese de que el formato sea correcto."
DatesError == "Error al procesar las fechas."

\* the message of handleDrop for a file that is not an Excel file
NotExcelError == "Por favor, seleccione un archivo Excel (.xls o .xlsx)"

\* a file name is the sequence of its characters
ExcelName == <<"p", "l", "a", "n", "i", "l", "l", "a", ".", "x", "l", "s", "x">>
UpperCaseName == <<"D", "A", "T", "O", "S", ".", "X", "L", "S">>
TextName == <<"n", "o", "t", "a", "s", ".", "t", "x", "t">>

\* names of the files dropped on the page
DroppedNames == {ExcelName, UpperCaseName, TextName}

\* the flag i of the pattern: the letters of the pattern in lower case
LowerCase(char) ==
    CASE char = "X" -> "x"
      [] char = "L" -> "l"
      [] char = "S" -> "s"
      [] OTHER -> char

\* the name ends with the suffix, whatever the case of its letters
EndsWith(name, suffix) ==
    /\ Len(name) >= Len(suffix)
    /\ \A i \in 1..Len(suffix) :
          LowerCase(name[Len(name) - Len(suffix) + i]) = suffix[i]

\* file.name.match(/\.(xls|xlsx)$/i)
IsExcelName(name) ==
    \/ EndsWith(name, <<".", "x", "l", "s">>)
    \/ EndsWith(name, <<".", "x", "l", "s", "x">>)

\* the handler's call of analyzeAttendance on [start, end] with the preferences of
\* its render, then setResults and setError(''); when the call throws, the catch
\* block sets `message` and the results stay
AnalyzeAndPublish(recs, start, end, prefs, message) ==
    /\ startDate' = start
    /\ endDate' = end
    /\ results' = IF GroupingThrows(recs) THEN results
                  ELSE analyzeAttendance(recs, start, end, prefs)
    /\ locals' = analyzeLocals(recs, start, end, prefs)
    /\ error' = IF GroupingThrows(recs) THEN message ELSE ""

\* handleFileUpload and handleDrop up to `await file.arrayBuffer()`: the handler
\* keeps the preferences of its render and returns to the event loop
StartUpload(records) ==
    /\ Cardinality(pendingReads) < MaxReads
    /\ pendingReads' = pendingReads \cup {[records |-> records, preferences |-> preferences]}
    /\ UNCHANGED <<preferences, rawRecords, startDate, endDate, results, locals,
                   dayRecords, daySchedule, dayAnalysis, selectedPeriod, filterResult,
                   error, pc>>
    /\ UNCHANGED viewVars

\* the rest of handleFileUpload and handleDrop, once the file is read, for a sheet
\* with at least one row
UploadSheet(read) ==
    /\ pendingReads' = pendingReads \ {read}
    /\ rawRecords' = read.records
    /\ selectedPeriod' = PeriodOf(MinDate(read.records))
    /\ AnalyzeAndPublish(
           read.records,
           getFortnightDates(MinDate(read.records),
                             PeriodOf(MinDate(read.records)).fortnight).start,
           getFortnightDates(MinDate(read.records),
                             PeriodOf(MinDate(read.records)).fortnight).end,
           read.preferences,
           FileError)
    /\ UNCHANGED <<preferences, dayRecords, daySchedule, dayAnalysis, filterResult, pc>>
    /\ UNCHANGED viewVars

\* the catch block of handleFileUpload and handleDrop when file.arrayBuffer()
\* rejects or XLSX.read throws: no setter was called before
FailedRead(read) ==
    /\ pendingReads' = pendingReads \ {read}
    /\ error' = FileError
    /\ UNCHANGED <<preferences, rawRecords, startDate, endDate, results, locals,
                   dayRecords, daySchedule, dayAnalysis, selectedPeriod, filterResult, pc>>
    /\ UNCHANGED viewVars

\* handleDrop for a file that is not an Excel file: setError and return
RejectDrop ==
    /\ error' = NotExcelError
    /\ UNCHANGED <<preferences, rawRecords, startDate, endDate, results, locals,
                   dayRecords, daySchedule, dayAnalysis, selectedPeriod, filterResult,
                   pendingReads, pc>>
    /\ UNCHANGED viewVars

\* the body of handleDrop for a file with a name that holds one of the sheets
DropFile(name, sheets) ==
    IF IsExcelName(name) THEN \E records \in sheets : StartUpload(records)
    ELSE RejectDrop

\* handleFileUpload is called with a file
handleFileUpload ==
    /\ pc = "app"
    /\ \E records \in AppUploads : StartUpload(records)

\* handleDrop is called with a file
handleDrop ==
    /\ pc = "app"
    /\ \E name \in DroppedNames : DropFile(name, AppUploads)

\* file.arrayBuffer() settles and the handler goes on
fileRead ==
    /\ pc = "app"
    /\ \E read \in pendingReads : UploadSheet(read) \/ FailedRead(read)

\* the body of handlePeriodChange: nothing happens while no sheet is loaded
ChangePeriod(month, fortnight) ==
    IF rawRecords = <<>>
        THEN UNCHANGED vars
    ELSE /\ selectedPeriod' = [month |-> month, fortnight |-> fortnight]
         /\ AnalyzeAndPublish(rawRecords,
                               getFortnightDates(month, fortnight).start,
                               getFortnightDates(month, fortnight).end,
                               preferences,
                               DatesError)
         /\ UNCHANGED <<preferences, rawRecords, dayRecords, daySchedule,
                        dayAnalysis, filterResult, pendingReads, pc>>
         /\ UNCHANGED viewVars

\* handlePeriodChange: nothing happens while no sheet is loaded
handlePeriodChange ==
    /\ pc = "app"
    /\ \E month \in PeriodMonths, fortnight \in {1, 2} : ChangePeriod(month, fortnight)

\* the effect of setPreferences(newPreferences)
SavePreferences(newPreferences) ==
    /\ preferences' = newPreferences
    /\ UNCHANGED <<rawRecords, startDate, endDate, results, locals, dayRecords,
                   daySchedule, dayAnalysis, selectedPeriod, filterResult, pc>>
    /\ UNCHANGED uiVars

\* onSave of the settings dialog: setPreferences(localPreferences)
setPreferences ==
    /\ pc = "app"
    /\ \E newPreferences \in AppPreferences : SavePreferences(newPreferences)

NextApp ==
    handleFileUpload \/ handleDrop \/ fileRead \/ handlePeriodChange \/ setPreferences

SpecApp == InitApp /\ [][NextApp]_vars

(***************************************************************************)
(* The results table (App): rows, marks, keyboard navigation, drill-down   *)
(***************************************************************************)
\* the sheets that can be uploaded: one punch of each of three employees on
\* Monday 1 January, two entries of Ana two minutes apart, one entry of Beto
TableUploads ==
    { << Punch("Ana", 0, 8 * 60 + 10, 0, "In", "None"),
         Punch("Beto", 0, 8 * 60, 0, "In", "None"),
         Punch("Caro", 0, 8 * 60, 0, "In", "None") >>,
      << Punch("Ana", 0, 8 * 60 + 10, 0, "In", "None"),
         Punch("Ana", 0, 8 * 60 + 12, 0, "In", "None") >>,
      << Punch("Beto", 0, 8 * 60, 0, "In", "None") >> }

\* configurations that the settings dialog can save
TablePreferences ==
    { DEFAULT_PREFERENCES,
      [DEFAULT_PREFERENCES EXCEPT !.duplicateThresholdMinutes = 1] }

InitTable ==
    /\ pc = "table"
    /\ preferences \in TablePreferences
    /\ InitUi
    /\ rawRecords = <<>>
    /\ results = <<>>
    /\ selectedPeriod = [month |-> parseDate(0), fortnight |-> 1]
    /\ startDate = 0
    /\ endDate = 0
    /\ locals = NoLocals
    /\ dayRecords = <<>>
    /\ daySchedule = preferences.regularSchedule
    /\ dayAnalysis = NoAnalysis
    /\ filterResult = <<>>

\* handleFileUpload is called with a file while the table is shown
tableFileUpload ==
    /\ pc = "table"
    /\ \E records \in TableUploads : StartUpload(records)

\* handleDrop is called with a file while the table is shown
tableDrop ==
    /\ pc = "table"
    /\ \E name \in DroppedNames : DropFile(name, TableUploads)

\* file.arrayBuffer() settles while the table is shown
tableFileRead ==
    /\ pc = "table"
    /\ \E read \in pendingReads : UploadSheet(read) \/ FailedRead(read)

\* handlePeriodChange while the table is shown
tablePeriodChange ==
    /\ pc = "table"
    /\ \E month \in PeriodMonths, fortnight \in {1, 2} : ChangePeriod(month, fortnight)

\* onSave of the settings dialog while the table is shown
tableSetPreferences ==
    /\ pc = "table"
    /\ \E newPreferences \in TablePreferences : SavePreferences(newPreferences)

\* results.filter(r => !markedPeople.has(r.name)): the rows of the main table
navigableResults == SelectSeq(results, LAMBDA r : r.name \notin markedPeople)

\* results.filter(r => markedPeople.has(r.name)): the rows of the marked section
markedResults == SelectSeq(results, LAMBDA r : r.name \in markedPeople)

\* the variables the table handlers leave alone
sheetVars == <<preferences, rawRecords, startDate, endDate, results, locals, dayRecords,
               daySchedule, dayAnalysis, selectedPeriod, filterResult, showPreferences,
               localPreferences, error, pendingReads>>

\* onClick of the row at `index` (from 0) of the main table
rowClick ==
    /\ pc = "table"
    /\ \E index \in 0..(Len(navigableResults) - 1) :
          /\ selectedIndex' = index
          /\ expandedPerson' =
                IF expandedPerson = navigableResults[index + 1].name
                    THEN "null"
                ELSE navigableResults[index + 1].name
    /\ UNCHANGED <<sheetVars, markedPeople, pc>>

\* onClick of a row of the marked section
markedRowClick ==
    /\ pc = "table"
    /\ \E index \in 0..(Len(markedResults) - 1) :
          expandedPerson' =
              IF expandedPerson = markedResults[index + 1].name
                  THEN "null"
              ELSE markedResults[index + 1].name
    /\ UNCHANGED <<sheetVars, selectedIndex, markedPeople, pc>>

\* onChange of the checkbox of a row, in the main table or in the marked section
toggleMarked ==
    /\ pc = "table"
    /\ \E index \in 1..Len(results) :
          markedPeople' =
              IF results[index].name \in markedPeople
                  THEN markedPeople \ {results[index].name}
              ELSE markedPeople \cup {results[index].name}
    /\ UNCHANGED <<sheetVars, selectedIndex, expandedPerson, pc>>

ArrowKeys == {"ArrowUp", "ArrowDown", "ArrowLeft", "ArrowRight"}

\* newIndex of the updater that handleKeyDown hands to setSelectedIndex
newIndex(key, prev, length) ==
    IF key \in {"ArrowUp", "ArrowLeft"}
        THEN IF prev <= 0 THEN length - 1 ELSE prev - 1
    ELSE IF prev >= length - 1 THEN 0 ELSE prev + 1

\* handleKeyDown for an arrow key; navigableResults[newIndex].name throws a
\* TypeError when there is no row at newIndex, and the application unmounts
handleKeyDown ==
    /\ pc = "table"
    /\ \E key \in ArrowKeys :
          IF results = <<>> \/ navigableResults = <<>>
              THEN UNCHANGED vars
          ELSE IF newIndex(key, selectedIndex, Len(navigableResults))
                      \in 0..(Len(navigableResults) - 1)
              THEN /\ selectedIndex' =
                         newIndex(key, selectedIndex, Len(navigableResults))
                   /\ expandedPerson' =
                         navigableResults[newIndex(key, selectedIndex,
                                                   Len(navigableResults)) + 1].name
                   /\ UNCHANGED <<sheetVars, markedPeople, pc>>
          ELSE /\ pc' = "crashed"
               /\ UNCHANGED <<sheetVars, selectedIndex, markedPeople, expandedPerson>>

\* the dates of the day cards of the expanded row that have punches: the
\* result's buckets within the selected fortnight, Sundays aside
DrillDownDates(result) ==
    { date \in DOMAIN result.dailyRecords :
        /\ isWithinInterval(parseDate(date),
                            getFortnightDates(selectedPeriod.month,
                                              selectedPeriod.fortnight).start,
                            getFortnightDates(selectedPeriod.month,
                                              selectedPeriod.fortnight).end)
        /\ getDay(date) # 0 }

\* filteredRecords of the drill-down's call of analyzeDayRecords for a day card
DrillDownFiltered(result, date) ==
    filterDuplicateRecords(result.dailyRecords[date], preferences)

\* the drill-down's call of analyzeDayRecords for a day card
DrillDown(result, date) ==
    analyzeDayRecords(result.dailyRecords[date], result.schedule, preferences)

NextTable ==
    \/ tableFileUpload \/ tableDrop \/ tableFileRead
    \/ tablePeriodChange \/ tableSetPreferences
    \/ rowClick \/ markedRowClick \/ toggleMarked \/ handleKeyDown

SpecTable == InitTable /\ [][NextTable]_vars

(***************************************************************************)
(* The settings dialog (PreferencesDialog)                                 *)
(***************************************************************************)
\* parseInt of a typed text: <<n>> for the number n, <<>> for NaN
parseInt(text) ==
    CASE text = "" -> <<>>
      [] text = "0" -> <<0>>
      [] text = "9" -> <<9>>
      [] text = "35" -> <<35>>
      [] text = "-5" -> <<-5>>

\* parseInt(text) || fallback: NaN and 0 are falsy
ParsedOr(parsed, fallback) ==
    IF parsed = <<>> \/ parsed = <<0>> THEN fallback ELSE parsed[1]

\* what is typed in the six number inputs of the dialog
NumberEdits ==
    { [field |-> "duplicateThresholdMinutes", text |-> "-5"],
      [field |-> "lunchDuration", text |-> ""],
      [field |-> "overtimeHalfHour", text |-> "0"],
      [field |-> "overtimeFullHour", text |-> "35"],
      [field |-> "lateHalfHour", text |-> "0"],
      [field |-> "lateFullHour", text |-> "-5"] }

\* localPreferences after the onChange of a number input
EditedPreferences(local, field, text) ==
    CASE field = "duplicateThresholdMinutes" ->
             [local EXCEPT !.duplicateThresholdMinutes = ParsedOr(parseInt(text), 5)]
      [] field = "lunchDuration" ->
             [local EXCEPT !.lunchDuration = ParsedOr(parseInt(text), 60)]
      [] field = "overtimeHalfHour" ->
             [local EXCEPT !.overtimeThresholds.halfHour = ParsedOr(parseInt(text), 25)]
      [] field = "overtimeFullHour" ->
             [local EXCEPT !.overtimeThresholds.fullHour = ParsedOr(parseInt(text), 55)]
      [] field = "lateHalfHour" ->
             [local EXCEPT !.lateThresholds.halfHour = ParsedOr(parseInt(text), 35)]
      [] field = "lateFullHour" ->
             [local EXCEPT !.lateThresholds.fullHour = ParsedOr(parseInt(text), 35)]

\* a % b of JavaScript: the remainder has the sign of a
Remainder(a, b) == IF a >= 0 THEN a % b ELSE 0 - ((0 - a) % b)

\* identities of the Schedule objects that the dialog creates
ObjectRefs == <<"object1", "object2", "object3", "object4", "object5">>

\* the identities of the Schedule objects that the state holds
LiveRefs ==
    {preferences.regularSchedule.ref, preferences.earlySchedule.ref,
     localPreferences.regularSchedule.ref, localPreferences.earlySchedule.ref,
     daySchedule.ref}
    \cup {results[i].schedule.ref : i \in 1..Len(results)}
    \cup {read.preferences.regularSchedule.ref : read \in pendingReads}
    \cup {read.preferences.earlySchedule.ref : read \in pendingReads}

\* the identity of a new object: one that no object of the state has
NewRef ==
    ObjectRefs[CHOOSE i \in 1..Len(ObjectRefs) :
                  /\ ObjectRefs[i] \notin LiveRefs
                  /\ \A j \in 1..(i - 1) : ObjectRefs[j] \in LiveRefs]

\* TimeInput: the hours and the minutes it shows for a value in minutes
TimeInputHours(value) == value \div 60
TimeInputMinutes(value) == Remainder(value, 60)

\* TimeInput: the value handed to onChange by the hours input and by the minutes
\* input
TimeInputChange(value, part, text) ==
    IF part = "hours"
        THEN ParsedOr(parseInt(text), 0) * 60 + TimeInputMinutes(value)
    ELSE TimeInputHours(value) * 60 + ParsedOr(parseInt(text), 0)

\* the four TimeInputs of a ScheduleSection
TimeFields == {"startTime", "endTime", "lunchStart", "lunchEnd"}

\* ScheduleSection: the schedule handed to onChange by one of its TimeInputs, a
\* new object {...schedule, [field]: minutes}
EditedSchedule(schedule, field, part, text) ==
    CASE field = "startTime" ->
             [schedule EXCEPT !.ref = NewRef,
                              !.startTime = TimeInputChange(schedule.startTime, part, text)]
      [] field = "endTime" ->
             [schedule EXCEPT !.ref = NewRef,
                              !.endTime = TimeInputChange(schedule.endTime, part, text)]
      [] field = "lunchStart" ->
             [schedule EXCEPT !.ref = NewRef,
                              !.lunchStart = TimeInputChange(schedule.lunchStart, part, text)]
      [] field = "lunchEnd" ->
             [schedule EXCEPT !.ref = NewRef,
                              !.lunchEnd = TimeInputChange(schedule.lunchEnd, part, text)]

\* localPreferences after the onChange of a ScheduleSection
EditedTimes(local, section, field, part, text) ==
    IF section = "regularSchedule"
        THEN [local EXCEPT !.regularSchedule =
                 EditedSchedule(local.regularSchedule, field, part, text)]
    ELSE [local EXCEPT !.earlySchedule =
             EditedSchedule(local.earlySchedule, field, part, text)]

\* what is typed in the TimeInputs: 9 in the hours of the regular entry time,
\* nothing in the minutes of the early lunch end
TimeEdits ==
    { [section |-> "regularSchedule", field |-> "startTime", part |-> "hours", text |-> "9"],
      [section |-> "earlySchedule", field |-> "lunchEnd", part |-> "minutes", text |-> ""] }

\* the variables the dialog leaves alone
engineVars == <<rawRecords, startDate, endDate, results, locals, dayRecords, daySchedule,
                dayAnalysis, selectedPeriod, filterResult, selectedIndex, markedPeople,
                expandedPerson, error, pendingReads, pc>>

InitDialog ==
    /\ pc = "dialog"
    /\ preferences = DEFAULT_PREFERENCES
    /\ InitUi
    /\ rawRecords = <<>>
    /\ results = <<>>
    /\ selectedPeriod = [month |-> parseDate(0), fortnight |-> 1]
    /\ startDate = 0
    /\ endDate = 0
    /\ locals = NoLocals
    /\ dayRecords = <<>>
    /\ daySchedule = preferences.regularSchedule
    /\ dayAnalysis = NoAnalysis
    /\ filterResult = <<>>

\* the settings button: the dialog mounts with a copy of the configuration
openPreferences ==
    /\ pc = "dialog"
    /\ ~showPreferences
    /\ showPreferences' = TRUE
    /\ localPreferences' = preferences
    /\ UNCHANGED <<preferences, engineVars>>

\* onChange of a number input
editNumber ==
    /\ pc = "dialog"
    /\ showPreferences
    /\ \E edit \in NumberEdits :
          localPreferences' = EditedPreferences(localPreferences, edit.field, edit.text)
    /\ UNCHANGED <<preferences, showPreferences, engineVars>>

\* onChange of an hours or minutes input of a ScheduleSection
editTime ==
    /\ pc = "dialog"
    /\ showPreferences
    /\ \E edit \in TimeEdits :
          localPreferences' = EditedTimes(localPreferences, edit.section, edit.field,
                                          edit.part, edit.text)
    /\ UNCHANGED <<preferences, showPreferences, engineVars>>

\* onChange of the checkbox "Mostrar todos los dias"
editShowAllDays ==
    /\ pc = "dialog"
    /\ showPreferences
    /\ \E checked \in BOOLEAN :
          localPreferences' = [localPreferences EXCEPT !.showAllDays = checked]
    /\ UNCHANGED <<preferences, showPreferences, engineVars>>

\* "Cancelar": onClose, the dialog unmounts
cancelPreferences ==
    /\ pc = "dialog"
    /\ showPreferences
    /\ showPreferences' = FALSE
    /\ localPreferences' = preferences
    /\ UNCHANGED <<preferences, engineVars>>

\* "Guardar cambios": onSave(localPreferences), then onClose
savePreferences ==
    /\ pc = "dialog"
    /\ showPreferences
    /\ preferences' = localPreferences
    /\ showPreferences' = FALSE
    /\ UNCHANGED <<localPreferences, engineVars>>

NextDialog ==
    \/ openPreferences \/ editNumber \/ editTime \/ editShowAllDays
    \/ cancelPreferences \/ savePreferences

SpecDialog == InitDialog /\ [][NextDialog]_vars

Init ==
    \/ InitDay \/ InitPeriod \/ InitRange \/ InitFilter \/ InitClassify
    \/ InitApp \/ InitTable \/ InitDialog

Next ==
    \/ EvaluateDay \/ AnalyzePeriod \/ ApplyFilter \/ Classify
    \/ NextApp \/ NextTable \/ NextDialog

Spec == Init /\ [][Next]_vars

(***************************************************************************)
(* Properties of the daily evaluator (checked under SpecDay)               *)
(***************************************************************************)
\* day 0 is a Monday
IsMondayToFriday(date) == date % 7 \in 0..4
IsSaturday(date) == date % 7 = 5

\* the day as evaluated: its punches in time order, duplicates suppressed
DayPunches == filterDuplicateRecords(dayRecords, preferences)

\* a day that was evaluated, holds a punch and does not start on a Saturday
EvaluatedWorkday ==
    /\ pc = "dayDone"
    /\ DayPunches # <<>>
    /\ getDay(DayPunches[1].day) # 6

DayArrival == DayPunches[1].hm
DayDeparture == DayPunches[Len(DayPunches)].hm

\* the first Break-Out and the first Break-In punch of the day, if any
DayBreakOuts == {i \in 1..Len(DayPunches) :
                    DayPunches[i].tipo = "Break" /\ DayPunches[i].op = "Out"}
DayBreakIns == {i \in 1..Len(DayPunches) :
                    DayPunches[i].tipo = "Break" /\ DayPunches[i].op = "In"}
DayHasBreakPair == DayBreakOuts # {} /\ DayBreakIns # {}
DayBreakMinutes ==
    LET o == DayPunches[CHOOSE i \in DayBreakOuts : \A j \in DayBreakOuts : i <= j]
        n == DayPunches[CHOOSE i \in DayBreakIns : \A j \in DayBreakIns : i <= j]
        secs == (n.hm * 60 + n.sec) - (o.hm * 60 + o.sec)
    IN  IF secs >= 0 THEN secs \div 60 ELSE -((-secs) \div 60)

\* minutes of lunch beyond lunchDuration, and the late-hours tier of an amount
\* (an amount of 0 adds no late hours, whatever the thresholds)
DayLunchExcess ==
    IF DayHasBreakPair /\ DayBreakMinutes > preferences.lunchDuration
        THEN DayBreakMinutes - preferences.lunchDuration
    ELSE 0
TierOf(minutes) ==
    IF minutes <= 0 THEN 0
    ELSE IF minutes > preferences.lateThresholds.fullHour THEN 2
    ELSE IF minutes > preferences.lateThresholds.halfHour THEN 1
    ELSE 0

\* whole minutes between the first and the last punch, less the break
DayWorkedMinutes ==
    LET f == DayPunches[1]
        l == DayPunches[Len(DayPunches)]
        span == ((l.hm * 60 + l.sec) - (f.hm * 60 + f.sec)) \div 60
    IN  IF DayHasBreakPair THEN span - DayBreakMinutes ELSE span

ThresholdsPositive ==
    /\ preferences.lateThresholds.halfHour > 0
    /\ preferences.lateThresholds.fullHour > 0
    /\ preferences.overtimeThresholds.halfHour > 0
    /\ preferences.overtimeThresholds.fullHour > 0

\* the four boundary arrivals of the lateness tiers give 0, 0.5, 0.5 and 1.0 h
LateBoundaryCredits ==
    LET late == DayArrival - daySchedule.startTime
        lh == preferences.lateThresholds.halfHour
        lf == preferences.lateThresholds.fullHour
    IN  /\ late = lh => dayAnalysis.lateHours = 0
        /\ late = lh + 1 => dayAnalysis.lateHours = 1
        /\ late = lf => dayAnalysis.lateHours = 1
        /\ late = lf + 1 => dayAnalysis.lateHours = 2

\* C4 as stated: for every configuration with positive thresholds, on a weekday
\* with no lunch overrun, an arrival exactly halfHour minutes late earns 0 late
\* hours, one minute more 0.5, exactly fullHour minutes 0.5, one minute more 1.0.
C4_AsStated ==
    (EvaluatedWorkday /\ ThresholdsPositive /\ DayLunchExcess = 0) => LateBoundaryCredits

\* C4 amended: the same four boundary values, for every configuration with
\* positive thresholds in which lateThresholds.halfHour < lateThresholds.fullHour.
C4_LateBoundaries ==
    (/\ EvaluatedWorkday
     /\ ThresholdsPositive
     /\ preferences.lateThresholds.halfHour < preferences.lateThresholds.fullHour
     /\ DayLunchExcess = 0) => LateBoundaryCredits

C4_Witness ==
    /\ EvaluatedWorkday
    /\ preferences.lateThresholds.halfHour < preferences.lateThresholds.fullHour
    /\ DayLunchExcess = 0
    /\ daySchedule.ref = "early"
    /\ DayArrival - daySchedule.startTime = preferences.lateThresholds.fullHour
    /\ dayAnalysis.lateHours = 1

\* C5: on a non-Saturday day, for either schedule, an arrival after the scheduled
\* start adds exactly (arrival - start) to lateMinutes; an arrival at or before
\* it adds nothing to lateMinutes and nothing to lateHours.
C5_ArrivalLateMinutes ==
    EvaluatedWorkday =>
        /\ dayAnalysis.lateMinutes - DayLunchExcess =
              (IF DayArrival > daySchedule.startTime
                  THEN DayArrival - daySchedule.startTime ELSE 0)
        /\ DayArrival <= daySchedule.startTime =>
              dayAnalysis.lateHours - TierOf(DayLunchExcess) = 0

C5_Witness ==
    /\ EvaluatedWorkday
    /\ daySchedule.ref = "early"
    /\ DayArrival > daySchedule.startTime
    /\ DayLunchExcess > 0
    /\ dayAnalysis.lateMinutes = DayArrival - daySchedule.startTime + DayLunchExcess

\* the evening credit by the two overtime thresholds, and the early-arrival credit
\* by 07:05 and 07:30
EveningTier ==
    IF DayDeparture >= daySchedule.endTime + preferences.overtimeThresholds.fullHour THEN 2
    ELSE IF DayDeparture >= daySchedule.endTime + preferences.overtimeThresholds.halfHour THEN 1
    ELSE 0
EarlyTier ==
    IF DayArrival <= 425 THEN 2 ELSE IF DayArrival <= 450 THEN 1 ELSE 0
IsRegularSchedule == daySchedule = preferences.regularSchedule

\* C8: an early-arrival credit is granted only with the configuration's regular
\* schedule, a first punch before the scheduled start and at least 480 worked
\* minutes; it is 1.0 up to 07:05, 0.5 up to 07:30, else 0; never with the early
\* schedule.
C8_EarlyArrivalCredit ==
    EvaluatedWorkday =>
        LET evening == IF DayWorkedMinutes >= 480 THEN EveningTier ELSE 0
        IN  dayAnalysis.overtimeHours - evening =
               (IF /\ IsRegularSchedule
                   /\ DayArrival < daySchedule.startTime
                   /\ DayWorkedMinutes >= 480
                   THEN EarlyTier ELSE 0)

C8_Witness ==
    /\ EvaluatedWorkday
    /\ IsRegularSchedule
    /\ DayArrival = 450
    /\ DayWorkedMinutes >= 480
    /\ DayDeparture >= daySchedule.endTime + preferences.overtimeThresholds.fullHour
    /\ dayAnalysis.overtimeHours = 3

\* C9: overtimeHours > 0 only when the worked minutes (last punch - first punch,
\* less the break when there is a Break-Out/Break-In pair) are at least 480; a
\* day of exactly one punch yields overtimeHours = 0.
C9_OvertimeNeedsEightHours ==
    pc = "dayDone" =>
        /\ dayAnalysis.overtimeHours > 0 => (DayPunches # <<>> /\ DayWorkedMinutes >= 480)
        /\ Len(dayRecords) = 1 => dayAnalysis.overtimeHours = 0

C9_Witness ==
    /\ EvaluatedWorkday
    /\ DayHasBreakPair
    /\ DayBreakMinutes > 0
    /\ DayWorkedMinutes >= 480
    /\ dayAnalysis.overtimeHours > 0

\* the evening credit of a day whose 8-hour gate passed
EveningCreditGranted ==
    dayAnalysis.overtimeHours
        - (IF IsRegularSchedule /\ DayArrival < daySchedule.startTime THEN EarlyTier ELSE 0)

\* C10 as stated: past the gate the evening credit is 1.0 from endTime + fullHour,
\* else 0.5 from endTime + halfHour, else 0, and a departure exactly at
\* endTime + halfHour earns 0.5, exactly at endTime + fullHour 1.0.
C10_AsStated ==
    (EvaluatedWorkday /\ ThresholdsPositive /\ DayWorkedMinutes >= 480) =>
        /\ EveningCreditGranted = EveningTier
        /\ DayDeparture = daySchedule.endTime + preferences.overtimeThresholds.halfHour
              => EveningCreditGranted = 1
        /\ DayDeparture = daySchedule.endTime + preferences.overtimeThresholds.fullHour
              => EveningCreditGranted = 2

\* C10 amended: the same tiers; a departure exactly at endTime + fullHour earns
\* 1.0, and one exactly at endTime + halfHour earns 0.5 when halfHour < fullHour
\* (with halfHour >= fullHour it already earns 1.0).
C10_EveningCredit ==
    (EvaluatedWorkday /\ ThresholdsPositive /\ DayWorkedMinutes >= 480) =>
        /\ EveningCreditGranted = EveningTier
        /\ (/\ DayDeparture = daySchedule.endTime + preferences.overtimeThresholds.halfHour
            /\ preferences.overtimeThresholds.halfHour < preferences.overtimeThresholds.fullHour)
              => EveningCreditGranted = 1
        /\ DayDeparture = daySchedule.endTime + preferences.overtimeThresholds.fullHour
              => EveningCreditGranted = 2

C10_Witness ==
    /\ EvaluatedWorkday
    /\ daySchedule.ref = "early"
    /\ DayWorkedMinutes >= 480
    /\ preferences.overtimeThresholds.halfHour < preferences.overtimeThresholds.fullHour
    /\ DayDeparture = daySchedule.endTime + preferences.overtimeThresholds.halfHour
    /\ dayAnalysis.overtimeHours = 1

\* minutes of lateness of the arrival
DayArrivalLate ==
    IF DayArrival > daySchedule.startTime THEN DayArrival - daySchedule.startTime ELSE 0

\* C11: on a non-Saturday day, when a Break-Out and a Break-In punch exist and the
\* break is longer than lunchDuration, the excess is added to lateMinutes and
\* gives 0.5 late hours if halfHour < excess <= fullHour and 1.0 if excess >
\* fullHour; when a break punch is missing or the break is not longer than
\* lunchDuration, the lunch block adds nothing.
C11_LunchOverrun ==
    EvaluatedWorkday =>
        LET lunchMinutes == dayAnalysis.lateMinutes - DayArrivalLate
            lunchHours == dayAnalysis.lateHours - TierOf(DayArrivalLate)
            lh == preferences.lateThresholds.halfHour
            lf == preferences.lateThresholds.fullHour
        IN  IF DayHasBreakPair /\ DayBreakMinutes > preferences.lunchDuration
                THEN /\ lunchMinutes = DayBreakMinutes - preferences.lunchDuration
                     /\ (lh < lunchMinutes /\ lunchMinutes <= lf) => lunchHours = 1
                     /\ lunchMinutes > lf => lunchHours = 2
                     /\ (lunchMinutes <= lh /\ lunchMinutes <= lf) => lunchHours = 0
            ELSE lunchMinutes = 0 /\ lunchHours = 0

C11_Witness ==
    /\ EvaluatedWorkday
    /\ DayHasBreakPair
    /\ DayBreakMinutes = preferences.lunchDuration + 36
    /\ preferences.lateThresholds.fullHour = 35
    /\ DayArrival > daySchedule.startTime + preferences.lateThresholds.fullHour
    /\ dayAnalysis.lateHours = 4
    /\ dayAnalysis.lateMinutes = DayArrivalLate + 36

\* C15: a day whose first punch falls on a Saturday evaluates to lateMinutes = 0,
\* lateHours = 0 and overtimeHours = 0, whatever the other punches, the schedule
\* and the configuration.
C15_SaturdayEvaluatesToZero ==
    (pc = "dayDone" /\ DayPunches # <<>> /\ IsSaturday(DayPunches[1].day)) =>
        /\ dayAnalysis.lateMinutes = 0
        /\ dayAnalysis.lateHours = 0
        /\ dayAnalysis.overtimeHours = 0

C15_Witness ==
    /\ pc = "dayDone"
    /\ DayPunches # <<>>
    /\ IsSaturday(DayPunches[1].day)
    /\ preferences # DEFAULT_PREFERENCES
    /\ IsRegularSchedule
    /\ DayArrival > daySchedule.startTime + preferences.lateThresholds.fullHour
    /\ DayHasBreakPair
    /\ DayBreakMinutes > preferences.lunchDuration + preferences.lateThresholds.fullHour
    /\ DayWorkedMinutes >= 480
    /\ DayDeparture >= daySchedule.endTime + preferences.overtimeThresholds.fullHour
    /\ dayAnalysis = [lateMinutes |-> 0, overtimeHours |-> 0, lateHours |-> 0]

\* whole minutes from the first to the last punch of the day
DaySpan ==
    differenceInMinutes(parseDateTime(DayPunches[Len(DayPunches)]),
                        parseDateTime(DayPunches[1]))

\* C27: the break duration subtracted from the worked minutes is never
\* negative, whatever the order of the day's Break-Out and Break-In punches; so
\* the worked minutes never exceed the span from the first to the last punch
\* and the 8-hour gate does not pass on a day whose span is under 480 minutes.
C27_BreakNeverNegative ==
    EvaluatedWorkday =>
        /\ HasBreakPair(DayPunches) => BreakDuration(DayPunches) >= 0
        /\ TotalWorkedMinutes(DayPunches) <= DaySpan
        /\ WorkedGate(TotalWorkedMinutes(DayPunches)) => DaySpan >= 480

\* C28: for every input the result has lateMinutes >= 0, lateHours and
\* overtimeHours among 0, 0.5, 1, 1.5 and 2 (0..4 half hours), and lateHours > 0
\* only with lateMinutes > 0; so the aggregator, which adds a day's lateHours
\* only when its lateMinutes > 0, adds every late-hours credit of the day.
C28_ResultRanges ==
    pc = "dayDone" =>
        /\ dayAnalysis.lateMinutes >= 0
        /\ dayAnalysis.lateHours \in 0..4
        /\ dayAnalysis.overtimeHours \in 0..4
        /\ dayAnalysis.lateHours > 0 => dayAnalysis.lateMinutes > 0
        /\ WorkdayContribution(dayAnalysis).lateHours = dayAnalysis.lateHours

C28_Witness ==
    /\ EvaluatedWorkday
    /\ dayAnalysis.lateHours = 4
    /\ dayAnalysis.lateMinutes > 0
    /\ WorkdayContribution(dayAnalysis).lateHours = 4

\* the seconds from the first to the last punch of the day
DayElapsedSeconds ==
    (DayPunches[Len(DayPunches)].hm * 60 + DayPunches[Len(DayPunches)].sec)
    - (DayPunches[1].hm * 60 + DayPunches[1].sec)

\* C30 as stated: on a weekday without a break pair the 8-hour gate passes
\* exactly when the last punch's minute of the day minus the first punch's
\* minute of the day is at least 480, whatever the seconds.
C30_AsStated ==
    (EvaluatedWorkday /\ ~HasBreakPair(DayPunches)) =>
        (WorkedGate(TotalWorkedMinutes(DayPunches)) <=> DayDeparture - DayArrival >= 480)

\* C30 (amended): on a weekday without a break pair the 8-hour gate passes
\* exactly when the last punch is at least 8 hours (28,800 seconds) after the
\* first, seconds included.
C30_GateOnElapsedTime ==
    (EvaluatedWorkday /\ ~HasBreakPair(DayPunches)) =>
        (WorkedGate(TotalWorkedMinutes(DayPunches)) <=> DayElapsedSeconds >= 480 * 60)

C30_Witness ==
    /\ EvaluatedWorkday
    /\ ~HasBreakPair(DayPunches)
    /\ DayPunches[1].sec = 30
    /\ DayDeparture - DayArrival = 480
    /\ DayElapsedSeconds = 480 * 60 - 30
    /\ ~WorkedGate(TotalWorkedMinutes(DayPunches))
    /\ dayAnalysis.overtimeHours = 0

(***************************************************************************)
(* Properties of the period aggregator (checked under SpecPeriod)          *)
(***************************************************************************)
PeriodDone == pc = "periodDone"

\* calendar dates of the range, both ends included
FirstRangeDay == startDate \div SecondsPerDay
LastRangeDay == endDate \div SecondsPerDay
InRangeDay(date) == FirstRangeDay <= date /\ date <= LastRangeDay

PunchDates == {rawRecords[i].day : i \in 1..Len(rawRecords)}
PunchDatesOf(name) ==
    {rawRecords[i].day : i \in {j \in 1..Len(rawRecords) : rawRecords[j].name = name}}

\* the weekdays of the range on which some employee punched
WorkdaysOfCompany == {date \in PunchDates : IsMondayToFriday(date) /\ InRangeDay(date)}

\* C3: the company workday set holds a date if and only if the date is a Monday
\* to Friday, lies within [start, end], and some punch of some employee carries it.
C3_CompanyWorkdays ==
    PeriodDone => locals.companyWorkdays = WorkdaysOfCompany

C3_Witness ==
    /\ PeriodDone
    /\ LastRangeDay = 14
    /\ 14 \in locals.companyWorkdays
    /\ 5 \in PunchDates
    /\ 5 \notin locals.companyWorkdays
    /\ 15 \in PunchDates

\* C1: an employee with at least one punch on every company workday of the range
\* has absences = 0.
C1_NoAbsenceWhenPunchedEveryWorkday ==
    PeriodDone =>
        \A i \in 1..Len(results) :
            WorkdaysOfCompany \subseteq PunchDatesOf(results[i].name)
                => results[i].absences = 0

\* the dates of an employee's buckets that are weekdays of the range
RecordedWorkdays(result) ==
    {date \in DOMAIN result.dailyRecords : IsMondayToFriday(date) /\ InRangeDay(date)}

\* C2: absences is the number of company workdays on which the employee has no
\* in-range weekday record; it never exceeds the size of the company workday set,
\* and a company workday without any punch of the employee is among those counted.
C2_AbsencesAreMissingWorkdays ==
    PeriodDone =>
        \A i \in 1..Len(results) :
            LET missing == WorkdaysOfCompany \ RecordedWorkdays(results[i])
            IN  /\ results[i].absences = Cardinality(missing)
                /\ results[i].absences <= Cardinality(WorkdaysOfCompany)
                /\ (WorkdaysOfCompany \ PunchDatesOf(results[i].name)) \subseteq missing

C2_Witness ==
    /\ PeriodDone
    /\ \E i, j \in 1..Len(results) :
          /\ results[i].name = "Beto"
          /\ results[j].name = "Ana"
          /\ 0 \in PunchDatesOf("Beto")
          /\ 1 \notin PunchDatesOf("Beto")
          /\ 1 \in WorkdaysOfCompany
          /\ results[i].absences = 1
          /\ results[j].absences = 0

RECURSIVE SumOver(_, _)
SumOver(dates, f) ==
    IF dates = {} THEN 0
    ELSE LET d == CHOOSE x \in dates : TRUE
         IN  f[d] + SumOver(dates \ {d}, f)

\* minutes between the first and the last punch of a bucket
BucketSpan(bucket) ==
    differenceInMinutes(parseDateTime(bucket[Len(bucket)]), parseDateTime(bucket[1]))

\* C6: before rounding, saturdayHours is the sum of (last punch - first punch) over
\* the employee's in-range Saturday buckets of at least two punches; no other
\* bucket adds to it, no Sunday bucket in particular.
C6_SaturdayHoursFromSaturdaysOnly ==
    PeriodDone =>
        \A i \in 1..Len(results) :
            LET buckets == results[i].dailyRecords
                counted == {date \in DOMAIN buckets :
                               /\ IsSaturday(date)
                               /\ InRangeDay(date)
                               /\ Len(buckets[date]) >= 2}
            IN  locals.users[i].totalSaturdayHours.minutes =
                    SumOver(counted, [date \in counted |-> BucketSpan(buckets[date])])

\* C7: the daily evaluator is never invoked for a Saturday bucket, and the late
\* days, late minutes, late hours and overtime of an employee are exactly what the
\* evaluated buckets give, so a Saturday bucket adds nothing to them.
C7_SaturdayNeverEvaluated ==
    PeriodDone =>
        \A i \in 1..Len(results) :
            LET l == locals.users[i]
                day == [date \in l.evaluated |->
                           analyzeDayRecords(l.dailyRecords[date], l.schedule, preferences)]
                late == {date \in l.evaluated : day[date].lateMinutes > 0}
            IN  /\ \A date \in l.evaluated : ~IsSaturday(date)
                /\ results[i].lateDays = Cardinality(late)
                /\ results[i].lateMinutes = SumOver(late, [date \in late |-> day[date].lateMinutes])
                /\ results[i].lateHours = SumOver(late, [date \in late |-> day[date].lateHours])
                /\ l.totalOvertimeHours =
                      SumOver(l.evaluated, [date \in l.evaluated |-> day[date].overtimeHours])

C7_Witness ==
    /\ PeriodDone
    /\ \E i \in 1..Len(results) :
          /\ 5 \in DOMAIN results[i].dailyRecords
          /\ InRangeDay(5)
          /\ Len(results[i].dailyRecords[5]) = 2
          /\ results[i].dailyRecords[5][1].hm > results[i].schedule.startTime
          /\ 0 \in locals.users[i].evaluated
          /\ results[i].lateDays = 1
          /\ results[i].lateMinutes = 10
          /\ results[i].saturdayHours = 9

\* C12: for every employee, lateDays is the number of in-range Monday-to-Friday
\* buckets whose evaluation returns lateMinutes > 0, lateMinutes and lateHours are
\* the sums of the evaluations' lateMinutes and lateHours over the in-range
\* Monday-to-Friday buckets, the overtime before rounding is the sum of their
\* overtimeHours, and a bucket outside [start, end] adds nothing.
C12_TotalsOverInRangeWeekdays ==
    PeriodDone =>
        \A i \in 1..Len(results) :
            LET buckets == results[i].dailyRecords
                weekdays == RecordedWorkdays(results[i])
                day == [date \in weekdays |->
                           analyzeDayRecords(buckets[date], results[i].schedule, preferences)]
            IN  /\ results[i].lateDays =
                      Cardinality({date \in weekdays : day[date].lateMinutes > 0})
                /\ results[i].lateMinutes =
                      SumOver(weekdays, [date \in weekdays |-> day[date].lateMinutes])
                /\ results[i].lateHours =
                      SumOver(weekdays, [date \in weekdays |-> day[date].lateHours])
                /\ locals.users[i].totalOvertimeHours =
                      SumOver(weekdays, [date \in weekdays |-> day[date].overtimeHours])

C12_Witness ==
    /\ PeriodDone
    /\ LastRangeDay = 14
    /\ Len(results) = 1
    /\ DOMAIN results[1].dailyRecords = {0, 15}
    /\ Len(results[1].dailyRecords[0]) = 2
    /\ analyzeDayRecords(results[1].dailyRecords[15], results[1].schedule, preferences)
           .lateMinutes = 10
    /\ results[1].lateDays = 1
    /\ results[1].lateMinutes = 10
    /\ results[1].lateHours = 1
    /\ locals.users[1].totalOvertimeHours = 1

\* the half hour nearest to a total (a double), the upper one when both are
\* equally near: halfHours / 2 - 1/4 <= total < halfHours / 2 + 1/4
IsNearestHalfHour(halfHours, total) ==
    /\ halfHours \in Nat
    /\ \/ halfHours * 30 - 15 < total.minutes
       \/ halfHours * 30 - 15 = total.minutes /\ total.err >= 0
    /\ \/ total.minutes < halfHours * 30 + 15
       \/ total.minutes = halfHours * 30 + 15 /\ total.err < 0

\* C13: in every result, overtimeHours and saturdayHours are the accumulated
\* totals rounded to the nearest 0.5 (half up), totalHours is the sum of the two
\* rounded values, and lateHours is the accumulated total, not rounded.
C13_RoundedTotals ==
    PeriodDone =>
        \A i \in 1..Len(results) :
            /\ IsNearestHalfHour(results[i].overtimeHours,
                                 HalfHours(locals.users[i].totalOvertimeHours))
            /\ IsNearestHalfHour(results[i].saturdayHours,
                                 locals.users[i].totalSaturdayHours)
            /\ results[i].totalHours = results[i].overtimeHours + results[i].saturdayHours
            /\ results[i].lateHours = locals.users[i].totalLateHours

C13_Witness ==
    /\ PeriodDone
    /\ \E i \in 1..Len(results) :
          /\ locals.users[i].totalSaturdayHours.minutes = 675
          /\ locals.users[i].totalSaturdayHours.err < 0
          /\ results[i].saturdayHours = 22
          /\ locals.users[i].totalOvertimeHours = 0
          /\ results[i].totalHours = 22

\* the punches of an employee, in upload order
PunchesOf(name) == SelectSeq(rawRecords, LAMBDA r : r.name = name)

\* the result of the analysis of the punches of one employee alone
AloneResult(name) ==
    analyzeAttendance(PunchesOf(name), startDate, endDate, preferences)[1]

\* the fields of a result that the punches of other employees cannot change
OwnFields(result) ==
    [ schedule |-> result.schedule,
      lateDays |-> result.lateDays,
      lateMinutes |-> result.lateMinutes,
      lateHours |-> result.lateHours,
      overtimeHours |-> result.overtimeHours,
      saturdayHours |-> result.saturdayHours,
      daysRegistered |-> result.daysRegistered,
      dailyRecords |-> result.dailyRecords ]

\* C23: for a fixed range and configuration, an employee's schedule, lateDays,
\* lateMinutes, lateHours, overtimeHours, saturdayHours, daysRegistered and daily
\* buckets in the results of an analysis are those of the analysis of the
\* employee's punches alone, whatever the punches of the other employees;
\* absences is the only field they change, through the company workday set.
C23_EmployeesIndependent ==
    PeriodDone =>
        \A i \in 1..Len(results) :
            /\ OwnFields(results[i]) = OwnFields(AloneResult(results[i].name))
            /\ results[i].absences =
                  Cardinality(locals.companyWorkdays \ RecordedWorkdays(results[i]))

C23_Witness ==
    /\ PeriodDone
    /\ Len(results) = 2
    /\ \E i \in 1..2 :
          /\ results[i].lateDays = 1
          /\ results[i].absences = 1
          /\ AloneResult(results[i].name).absences = 0
          /\ OwnFields(results[i]) = OwnFields(AloneResult(results[i].name))

\* the upload without the punches of `name` dated outside the range
WithoutOutside(name) ==
    SelectSeq(rawRecords, LAMBDA r : r.name # name \/ InRangeDay(r.day))

\* whether `name` has a punch dated within, respectively outside, the range
HasInside(name) == \E k \in 1..Len(rawRecords) :
    rawRecords[k].name = name /\ InRangeDay(rawRecords[k].day)
HasOutside(name) == \E k \in 1..Len(rawRecords) :
    rawRecords[k].name = name /\ ~InRangeDay(rawRecords[k].day)

\* the result of `name` in a list of results
ResultNamed(list, name) == list[CHOOSE k \in 1..Len(list) : list[k].name = name]

\* the result of `name` when its punches dated outside the range are removed
InsideResult(name) ==
    ResultNamed(analyzeAttendance(WithoutOutside(name), startDate, endDate, preferences),
                name)

\* the period metrics of a result but the schedule
Counters(result) ==
    [ absences |-> result.absences,
      lateDays |-> result.lateDays,
      lateMinutes |-> result.lateMinutes,
      lateHours |-> result.lateHours,
      overtimeHours |-> result.overtimeHours,
      saturdayHours |-> result.saturdayHours,
      daysRegistered |-> result.daysRegistered ]

\* the buckets of a result dated within the range
InsideBuckets(result) ==
    [date \in {d \in DOMAIN result.dailyRecords : InRangeDay(d)} |->
        result.dailyRecords[date]]

\* whether two results of an employee have the same schedule and the same
\* buckets within the range, the same metrics, and the latter if the former
SameInside(result, inside) ==
    /\ result.schedule = inside.schedule
    /\ InsideBuckets(result) = InsideBuckets(inside)
SameMetrics(result, inside) ==
    /\ result.schedule = inside.schedule
    /\ Counters(result) = Counters(inside)
SameCountersUnlessChanged(result, inside) ==
    SameInside(result, inside) => Counters(result) = Counters(inside)

\* C25 as stated: for a fixed configuration and range, removing an employee's
\* punches dated outside [start, end] changes neither the chosen schedule nor
\* absences, lateDays, lateMinutes, lateHours, overtimeHours, saturdayHours and
\* daysRegistered.
C25_AsStated ==
    PeriodDone =>
        \A i \in 1..Len(results) :
            (HasInside(results[i].name) /\ HasOutside(results[i].name)) =>
                SameMetrics(results[i], InsideResult(results[i].name))

\* C25 (amended): for a fixed configuration and range, removing an employee's
\* punches dated outside [start, end] changes none of absences, lateDays,
\* lateMinutes, lateHours, overtimeHours, saturdayHours and daysRegistered
\* unless it changes the chosen schedule or the employee's duplicate-filtered
\* punches dated within the range.
C25_OutsideOnlyThroughScheduleAndFilter ==
    PeriodDone =>
        \A i \in 1..Len(results) :
            (HasInside(results[i].name) /\ HasOutside(results[i].name)) =>
                SameCountersUnlessChanged(results[i], InsideResult(results[i].name))

C25_Witness ==
    /\ PeriodDone
    /\ \E i \in 1..Len(results) :
          /\ HasInside(results[i].name)
          /\ HasOutside(results[i].name)
          /\ \E d \in DOMAIN results[i].dailyRecords :
                /\ ~InRangeDay(d)
                /\ ~isWeekend(d)
                /\ analyzeDayRecords(results[i].dailyRecords[d], results[i].schedule,
                                     preferences).lateMinutes > 0
          /\ results[i].lateDays = 1
          /\ SameInside(results[i], InsideResult(results[i].name))
          /\ SameMetrics(results[i], InsideResult(results[i].name))

(***************************************************************************)
(* Properties of the range test (checked under SpecRange)                  *)
(***************************************************************************)
\* C14: the range test is inclusive at both ends by calendar day, whatever time of
\* day start and end carry: the company workdays, the evaluated buckets, the
\* absences and daysRegistered are those of the dates from the calendar date of
\* start to the calendar date of end.
C14_RangeByCalendarDay ==
    PeriodDone =>
        /\ locals.companyWorkdays = WorkdaysOfCompany
        /\ \A i \in 1..Len(results) :
              /\ locals.users[i].evaluated = RecordedWorkdays(results[i])
              /\ results[i].absences =
                    Cardinality(WorkdaysOfCompany \ RecordedWorkdays(results[i]))
              /\ results[i].daysRegistered =
                    Cardinality({date \in DOMAIN results[i].dailyRecords : InRangeDay(date)})

(***************************************************************************)
(* Properties of the application (checked under SpecApp)                   *)
(***************************************************************************)
\* the range of the selected period
SelectedRange == getFortnightDates(selectedPeriod.month, selectedPeriod.fortnight)

\* C16: after any sequence of uploads, period changes and saved configurations,
\* the published results are the analysis of the current raw punches over the
\* selected range with the current configuration.
C16_ResultsAreCurrent ==
    pc = "app" =>
        /\ ~GroupingThrows(rawRecords)
        /\ results = analyzeAttendance(rawRecords, SelectedRange.start, SelectedRange.end,
                                       preferences)

(***************************************************************************)
(* Properties of the duplicate filter (checked under SpecFilter)           *)
(***************************************************************************)
FilterDone == pc = "filterDone"

\* the timestamp of a punch, in seconds
PunchTime(r) == (r.day * 24 * 60 + r.hm) * 60 + r.sec

\* the input in timestamp order, punches of equal timestamp in input order
SortedInput ==
    LET n == Len(dayRecords)
        order == CHOOSE p \in [1..n -> 1..n] :
                    /\ \A a, b \in 1..n : a # b => p[a] # p[b]
                    /\ \A a, b \in 1..n : a < b =>
                          \/ PunchTime(dayRecords[p[a]]) < PunchTime(dayRecords[p[b]])
                          \/ /\ PunchTime(dayRecords[p[a]]) = PunchTime(dayRecords[p[b]])
                             /\ p[a] < p[b]
    IN  [i \in 1..n |-> dayRecords[order[i]]]

\* the sub-list of a list at a set of positions
Pick(list, positions) ==
    [j \in 1..Cardinality(positions) |->
        list[CHOOSE i \in positions : Cardinality({x \in positions : x < i}) = j - 1]]

\* whole minutes from an earlier punch to a later one
WholeMinutesBetween(earlier, later) == (PunchTime(later) - PunchTime(earlier)) \div 60

WithinWindow(earlier, later) ==
    WholeMinutesBetween(earlier, later) <= preferences.duplicateThresholdMinutes

SameKindAndOperation(a, b) == a.tipo = b.tipo /\ a.op = b.op

\* positions i..j of the sorted input hold punches of one kind and operation, and
\* the punch before position i, if any, is of another kind or operation
IsRun(i, j) ==
    /\ i < j
    /\ \A m \in i..j : SameKindAndOperation(SortedInput[i], SortedInput[m])
    /\ i > 1 => ~SameKindAndOperation(SortedInput[i - 1], SortedInput[i])

\* of every run that satisfies `linked`, only the first punch is in the output
OnlyFirstOfRunsSurvives(linked(_, _)) ==
    \E kept \in SUBSET (1..Len(SortedInput)) :
        /\ Pick(SortedInput, kept) = filterResult
        /\ \A i, j \in 1..Len(SortedInput) :
              (IsRun(i, j) /\ linked(i, j)) => (i \in kept /\ kept \cap ((i + 1)..j) = {})

\* each punch of the run is within the window of the punch before it
ChainedRun(i, j) ==
    \A m \in i..(j - 1) : WithinWindow(SortedInput[m], SortedInput[m + 1])

\* each punch of the run is within the window of the first punch of the run
RunWithinWindowOfFirst(i, j) ==
    \A m \in (i + 1)..j : WithinWindow(SortedInput[i], SortedInput[m])

\* C17 as stated: of a run of punches of the same kind and operation in which each
\* punch is within the duplicate window of the punch before it, only the first
\* survives.
C17_AsStated == FilterDone => OnlyFirstOfRunsSurvives(ChainedRun)

\* C17 amended: of a run of punches of the same kind and operation in which each
\* punch is within the duplicate window of the first punch of the run, only the
\* first survives, however many follow.
C17_RunWithinWindowOfFirst == FilterDone => OnlyFirstOfRunsSurvives(RunWithinWindowOfFirst)

C17_Witness ==
    /\ FilterDone
    /\ Len(SortedInput) = MaxPunches
    /\ IsRun(1, MaxPunches)
    /\ RunWithinWindowOfFirst(1, MaxPunches)
    /\ \A m \in 1..(MaxPunches - 1) : PunchTime(SortedInput[m]) < PunchTime(SortedInput[m + 1])
    /\ filterResult = <<SortedInput[1]>>

\* the rule of the filter: `later` is kept after the last kept punch `lastKept`
KeptAfter(lastKept, later) ==
    \/ WholeMinutesBetween(lastKept, later) > preferences.duplicateThresholdMinutes
    \/ later.tipo # lastKept.tipo
    \/ later.op # lastKept.op

\* C18: the first punch in timestamp order is kept, and each later punch is kept
\* if and only if, against the last kept punch, its difference in whole minutes
\* is greater than duplicateThresholdMinutes or its kind or its operation
\* differs; a punch of the same kind and operation exactly
\* duplicateThresholdMinutes after the last kept one is dropped.
C18_KeepRule ==
    FilterDone =>
        \E kept \in SUBSET (1..Len(SortedInput)) :
            /\ Pick(SortedInput, kept) = filterResult
            /\ Len(SortedInput) > 0 => 1 \in kept
            /\ \A i \in 2..Len(SortedInput) :
                  LET lastKept == CHOOSE k \in kept :
                                     k < i /\ \A x \in kept : x < i => x <= k
                  IN  /\ i \in kept <=> KeptAfter(SortedInput[lastKept], SortedInput[i])
                      /\ (/\ SameKindAndOperation(SortedInput[lastKept], SortedInput[i])
                          /\ PunchTime(SortedInput[i]) - PunchTime(SortedInput[lastKept])
                                = preferences.duplicateThresholdMinutes * 60)
                            => i \notin kept

C18_Witness ==
    /\ FilterDone
    /\ Len(dayRecords) = 3
    /\ dayRecords[1].hm > dayRecords[3].hm
    /\ \A i \in 1..3 : dayRecords[i].tipo = "In"
    /\ \E i \in 2..3 :
          PunchTime(SortedInput[i]) - PunchTime(SortedInput[1])
              = preferences.duplicateThresholdMinutes * 60
    /\ Len(filterResult) = 2
    /\ filterResult[1] = SortedInput[1]
    /\ WholeMinutesBetween(filterResult[1], filterResult[2])
           = preferences.duplicateThresholdMinutes + 1

\* C19: filtering the filter's output again gives the same list.
C19_Idempotent ==
    FilterDone => filterDuplicateRecords(filterResult, preferences) = filterResult

C19_Witness ==
    /\ FilterDone
    /\ Len(dayRecords) = 3
    /\ Len(filterResult) = 2
    /\ SameKindAndOperation(filterResult[1], filterResult[2])
    /\ filterDuplicateRecords(filterResult, preferences) = filterResult

\* C20: the output is in ascending timestamp order and is a sub-list of the
\* sorted input, so it is no longer than the input, and it holds at least one
\* punch when the input does.
C20_SortedSublist ==
    FilterDone =>
        /\ \A a, b \in 1..Len(filterResult) :
              a < b => PunchTime(filterResult[a]) <= PunchTime(filterResult[b])
        /\ \E kept \in SUBSET (1..Len(SortedInput)) : Pick(SortedInput, kept) = filterResult
        /\ Len(filterResult) <= Len(dayRecords)
        /\ dayRecords # <<>> => Len(filterResult) >= 1

C20_Witness ==
    /\ FilterDone
    /\ Len(dayRecords) = 3
    /\ PunchTime(dayRecords[1]) > PunchTime(dayRecords[2])
    /\ PunchTime(dayRecords[2]) > PunchTime(dayRecords[3])
    /\ Len(filterResult) = 2
    /\ PunchTime(filterResult[1]) < PunchTime(filterResult[2])

(***************************************************************************)
(* Properties of the schedule classifier (checked under SpecClassify)      *)
(***************************************************************************)
ClassifyDone == pc = "classifyDone"

\* positions of the Monday-to-Friday punches of a kind in a list
WeekdayPunchesOf(list, tipo) ==
    {i \in 1..Len(list) : IsMondayToFriday(list[i].day) /\ list[i].tipo = tipo}

\* the mean minute-of-day of the punches at `positions` is strictly closer to
\* `near` than to `far` (both distances multiplied by the number of punches)
MeanStrictlyCloser(list, positions, near, far) ==
    LET total == SumOver(positions, [i \in positions |-> list[i].hm])
        count == Cardinality(positions)
        toNear == IF total >= near * count THEN total - near * count
                  ELSE near * count - total
        toFar == IF total >= far * count THEN total - far * count
                 ELSE far * count - total
    IN  positions # {} /\ toNear < toFar

\* C21: the classifier returns the early schedule if and only if the mean of the
\* employee's weekday In punches is strictly closer to the early start than to
\* the regular start and the mean of the weekday Out punches is strictly closer
\* to the early end than to the regular end; otherwise, ties included, it returns
\* the regular schedule; the value is one of the two configured schedules.
C21_EarlyIffBothMeansCloser ==
    ClassifyDone =>
        LET isEarly ==
                /\ MeanStrictlyCloser(filterResult, WeekdayPunchesOf(filterResult, "In"),
                                      preferences.earlySchedule.startTime,
                                      preferences.regularSchedule.startTime)
                /\ MeanStrictlyCloser(filterResult, WeekdayPunchesOf(filterResult, "Out"),
                                      preferences.earlySchedule.endTime,
                                      preferences.regularSchedule.endTime)
        IN  /\ daySchedule \in {preferences.earlySchedule, preferences.regularSchedule}
            /\ daySchedule = preferences.earlySchedule <=> isEarly

C21_Witness ==
    /\ ClassifyDone
    /\ preferences = DEFAULT_PREFERENCES
    /\ Len(filterResult) = 3
    /\ Cardinality(WeekdayPunchesOf(filterResult, "In")) = 2
    /\ \E i, j \in WeekdayPunchesOf(filterResult, "In") :
          filterResult[i].hm = 7 * 60 /\ filterResult[j].hm = 7 * 60 + 30
    /\ \E i \in WeekdayPunchesOf(filterResult, "Out") : filterResult[i].hm = 16 * 60
    /\ daySchedule = preferences.earlySchedule

\* C22: an employee with no In punch on a weekday, or with no Out punch on a
\* weekday, is classified as following the regular schedule.
C22_RegularWithoutInOrOut ==
    (/\ ClassifyDone
     /\ \/ WeekdayPunchesOf(dayRecords, "In") = {}
        \/ WeekdayPunchesOf(dayRecords, "Out") = {})
        => daySchedule = preferences.regularSchedule

C22_Witness ==
    /\ ClassifyDone
    /\ WeekdayPunchesOf(dayRecords, "In") = {}
    /\ \E i \in 1..Len(dayRecords) : dayRecords[i].tipo = "In"
    /\ \E i \in WeekdayPunchesOf(dayRecords, "Out") :
          dayRecords[i].hm = preferences.earlySchedule.endTime
    /\ Cardinality(WeekdayPunchesOf(dayRecords, "Out")) = 1
    /\ daySchedule = preferences.regularSchedule

(***************************************************************************)
(* Properties of the results table (checked under SpecTable)               *)
(***************************************************************************)
\* C26: for every daily bucket produced by analyzeAttendance, the duplicate
\* filter that analyzeDayRecords applies again removes nothing and reorders
\* nothing: the drill-down's call for a day card of the expanded row works on
\* exactly the punches of the bucket that the aggregator evaluated.
C26_DrillDownSeesBucket ==
    pc = "table" =>
        \A i \in 1..Len(results) :
            results[i].name = expandedPerson =>
                \A date \in DrillDownDates(results[i]) :
                    DrillDownFiltered(results[i], date) = results[i].dailyRecords[date]

\* C29: after any sequence of row clicks, mark and unmark toggles, uploads,
\* period changes and arrow-key presses, every arrow-key press computes a new
\* selected index within 0..n-1 of the n rows of the navigable list, so the
\* row it expands exists.
C29_NewIndexInRange ==
    /\ pc # "crashed"
    /\ (pc = "table" /\ navigableResults # <<>>) =>
          \A key \in ArrowKeys :
              newIndex(key, selectedIndex, Len(navigableResults))
                  \in 0..(Len(navigableResults) - 1)

(***************************************************************************)
(* Properties of the settings dialog (checked under SpecDialog)            *)
(***************************************************************************)
\* C24: in every configuration reachable from the defaults through edits and
\* saves in the settings dialog, the duplicate window, the lunch duration, the
\* two overtime thresholds and the two late thresholds are positive integers.
C24_ThresholdsPositive ==
    pc = "dialog" =>
        /\ preferences.duplicateThresholdMinutes \in Nat \ {0}
        /\ preferences.lunchDuration \in Nat \ {0}
        /\ preferences.overtimeThresholds.halfHour \in Nat \ {0}
        /\ preferences.overtimeThresholds.fullHour \in Nat \ {0}
        /\ preferences.lateThresholds.halfHour \in Nat \ {0}
        /\ preferences.lateThresholds.fullHour \in Nat \ {0}

====
